---- MODULE Spec2Model ----
(***************************************************************************)
(* BEEFY light client: BeefyLightClient::ingest_mmr_root_with_proof        *)
(* (src/src/lib.rs) over a store with four cells (latest height, MMR root, *)
(* current authority set, next authority set).  Every store call of the    *)
(* handler is one step of the caller, so that a failing write and the      *)
(* states between two writes are part of the model.                        *)
(*                                                                         *)
(* Hashes are symbolic: a hash is a sequence of integers, the hash of an   *)
(* authority address k is <<k>> and the hash of two nodes l, r is          *)
(* <<0>> \o l \o r, which is injective (no collisions).                    *)
(***************************************************************************)
EXTENDS Integers, Sequences, FiniteSets, TLC

\* ------------------------------------------------------------------ bounds
MaxHeight == 2
MaxValidators == 3
MaxId == 2

\* ------------------------------------------------------- symbolic hashing
NoHash == <<>>

\* keccak_256(&x.1) of an authority address k (lib.rs:125)
LeafHash(k) == <<k>>

\* hash of an inner node of a keccak tree (children l, r)
NodeHash(l, r) == <<0>> \o l \o r

Min(S) == CHOOSE x \in S : \A y \in S : x <= y

RECURSIVE SortedSeq(_)
SortedSeq(S) == IF S = {} THEN <<>> ELSE <<Min(S)>> \o SortedSeq(S \ {Min(S)})

Sibling(i) == IF i % 2 = 0 THEN i + 1 ELSE i - 1

RankIn(S, i) == Cardinality({j \in S : j <= i})

\* One pass per tree layer: `known` maps the node indices known in this layer
\* to hashes, `size` is the number of nodes of the layer, `proof` the unused
\* proof hashes.  A node without a right sibling is carried up unpaired.
RECURSIVE MerkleFold(_, _, _)
MerkleFold(known, size, proof) ==
    IF size <= 1
    THEN IF 0 \in DOMAIN known THEN known[0] ELSE NoHash
    ELSE LET need == {j \in {Sibling(i) : i \in DOMAIN known} :
                          j \notin DOMAIN known /\ j < size}
             k == Cardinality(need)
         IN IF k > Len(proof) \/ DOMAIN known = {}
            THEN NoHash
            ELSE LET full == [i \in DOMAIN known \cup need |->
                                IF i \in DOMAIN known THEN known[i]
                                ELSE proof[RankIn(need, i)]]
                     parents == [j \in {i \div 2 : i \in DOMAIN full} |->
                                   IF 2 * j + 1 < size
                                   THEN NodeHash(full[2 * j], full[2 * j + 1])
                                   ELSE full[2 * j]]
                 IN MerkleFold(parents, (size + 1) \div 2, SubSeq(proof, k + 1, Len(proof)))

\* MerkleProof::verify(root, leaf_indices, leaf_hashes, total_leaves_count):
\* `leaves` maps the 0-based leaf indices to the claimed leaf hashes.
MerkleVerify(proof, root, leaves, total) ==
    /\ DOMAIN leaves # {}
    /\ DOMAIN leaves \subseteq 0 .. (total - 1)
    /\ MerkleFold(leaves, total, proof) = root

\* The root of the tree over the addresses of a validator list.
MerkleRoot(list) ==
    MerkleFold([i \in 0 .. (Len(list) - 1) |-> LeafHash(list[i + 1])], Len(list), <<>>)

\* The proof nodes for the leaves `idx` in the tree over `list`, in the order
\* the verifier consumes them (bottom-up, left to right).
RECURSIVE SiblingNodes(_, _, _)
SiblingNodes(layer, size, idx) ==
    IF size <= 1 \/ idx = {} THEN <<>>
    ELSE LET need == {j \in {Sibling(i) : i \in idx} : j \notin idx /\ j < size}
             order == SortedSeq(need)
             up == [j \in 0 .. ((size + 1) \div 2 - 1) |->
                      IF 2 * j + 1 < size
                      THEN NodeHash(layer[2 * j], layer[2 * j + 1])
                      ELSE layer[2 * j]]
         IN [n \in 1 .. Len(order) |-> layer[order[n]]]
            \o SiblingNodes(up, (size + 1) \div 2, {i \div 2 : i \in idx})

MerkleProofFor(list, idx) ==
    SiblingNodes([i \in 0 .. (Len(list) - 1) |-> LeafHash(list[i + 1])], Len(list), idx)

\* ------------------------------------------------------------ data model
\* BeefyNextAuthoritySet { id, len, root } over a validator list.
AuthoritySetOf(i, list) == [id |-> i, len |-> Len(list), root |-> MerkleRoot(list)]

\* The validator lists of the model: a large committee with the addresses
\* 1 .. MaxValidators and a committee of the single address MaxValidators + 1.
BigList == [i \in 1 .. MaxValidators |-> i]
OneList == <<MaxValidators + 1>>
ValidatorLists == {BigList, OneList}

\* The authority sets an MMR leaf may announce as beefy_next_authority_set:
\* the committee with an odd id is OneList, the one with an even id BigList.
ListOfId(i) == IF i % 2 = 1 THEN OneList ELSE BigList
LeafSets == {AuthoritySetOf(i, ListOfId(i)) : i \in 1 .. MaxId}

NoSet == [id |-> 0, len |-> 0, root |-> NoHash]

\* Signature slots of SignedCommitment.signatures: None, Some(sig) with
\* sig.len() != 65, Some(sig) of 65 bytes whose recovery fails, and k >= 1 for
\* a 65-byte signature that recovers to the key with address k.
NoSig == 0
ShortSig == -1
BadSig == -2
\* A second signature of 64 bytes: ShortSig with one bit flipped.
ShortSigFlipped == -3
SIGNATURE_LEN == 65
HASH_LENGTH == 32

SigLen(sig) ==
    IF sig \in {ShortSig, ShortSigFlipped} THEN SIGNATURE_LEN - 1 ELSE SIGNATURE_LEN

\* crypto::secp256k1_ecdsa_recover_compressed + AuthorityId::from_slice +
\* BeefyEcdsaToEthereum::convert: the address of the signer, 0 on failure.
RecoverAddress(sig) == IF sig >= 1 THEN sig ELSE 0

\* Payload::get_raw(&MMR_ROOT_ID): the first entry with that id, <<>> if none.
GetRaw(payload, id) ==
    LET hits == {n \in 1 .. Len(payload) : payload[n].id = id}
    IN IF hits = {} THEN <<>> ELSE <<payload[Min(hits)]>>

\* ------------------------------------------------------------------- MMR
\* Hash of the SCALE-encoded MMR leaf; of the leaf only its
\* beefy_next_authority_set is modelled.
MmrLeafHash(set) == <<-7, set.id, set.len>> \o set.root

RECURSIVE TrailingZeros(_)
TrailingZeros(n) == IF n % 2 = 1 THEN 0 ELSE 1 + TrailingZeros(n \div 2)

RECURSIVE PopCount(_)
PopCount(n) == IF n = 0 THEN 0 ELSE (n % 2) + PopCount(n \div 2)

RECURSIVE FoldItems(_, _)
FoldItems(h, items) ==
    IF items = <<>> THEN h ELSE FoldItems(NodeHash(Head(items), h), Tail(items))

\* The root of the MMR of leaf_count leaves whose last leaf hashes to
\* `leafhash`, recomputed from the proof items: the siblings on the path to the
\* last peak, then the peaks to its left.  NoHash when the number of items is
\* not the one this position needs.
MmrRootOf(leafhash, leaf_count, items) ==
    IF Len(items) # TrailingZeros(leaf_count) + PopCount(leaf_count) - 1
    THEN NoHash
    ELSE FoldItems(leafhash, items)

\* pallet_mmr::verify_leaf_proof(root, node, Proof { leaf_index, leaf_count, items })
VerifyLeafProof(root, leafhash, leaf_index, leaf_count, items) ==
    /\ leaf_count >= 1
    /\ leaf_index + 1 = leaf_count
    /\ MmrRootOf(leafhash, leaf_count, items) = root

\* ---------------------------------------------------------------- inputs
MMR_ROOT_ID == "mh"

\* The leaf index u64::MAX = 2^64 - 1, the one index of which index + 1
\* (lib.rs:163) does not fit in u64. It is written in two's complement, so
\* that the wrapping sum U64_MAX + 1 is 0 as in the code.
U64_MAX == -1

\* Proof nodes that belong to no tree of the model.
BogusNode == <<-8>>
LeftPeak == <<-9>>

\* The MMR root of the chain whose latest leaf announces `set`: an MMR of two
\* leaves, the update's leaf being the second.
ChainRoot(set) == MmrRootOf(MmrLeafHash(set), 2, <<LeftPeak>>)

MhEntry(n, r) == [id |-> MMR_ROOT_ID, len |-> n, val |-> r]

\* The parts of an update that the payload and MMR checks read: for every
\* announced set the update the chain produces, and for one of them the
\* malformed variants (no "mh" entry, an "mh" entry after another entry, an
\* "mh" value of 31 bytes, a foreign proof item, a leaf that is not the tip,
\* the leaf index u64::MAX, the root of another chain).
MmrParts ==
    LET s0 == AuthoritySetOf(1, OneList)
        good(s) == [payload |-> <<MhEntry(HASH_LENGTH, ChainRoot(s))>>,
                    leaf_index |-> 1, leaf_set |-> s, mmr_proof |-> <<LeftPeak>>]
    IN {good(s) : s \in LeafSets}
       \cup {[good(s0) EXCEPT !.payload = <<>>],
             [good(s0) EXCEPT !.payload = <<[id |-> "xx", len |-> 1, val |-> BogusNode]>>
                                           \o good(s0).payload],
             [good(s0) EXCEPT !.payload = <<MhEntry(HASH_LENGTH - 1, ChainRoot(s0))>>],
             [good(s0) EXCEPT !.mmr_proof = <<BogusNode>>],
             [good(s0) EXCEPT !.leaf_index = 0],
             [good(s0) EXCEPT !.leaf_index = U64_MAX],
             [good(s0) EXCEPT !.payload =
                 <<MhEntry(HASH_LENGTH, ChainRoot(AuthoritySetOf(1, BigList)))>>]}

\* The slots of a list of signatures that carry a key.
SignerSlots(sigs) == {i \in 1 .. Len(sigs) : sigs[i] >= 1}

\* Signature lists of n positions: the first slot is of any kind (empty, too
\* short, unrecoverable, signed by the first validator of BigList or of
\* OneList), and the slots after it are either all empty or all signed by the
\* validator of BigList at that position.
FirstSlotValues == {NoSig, ShortSig, BadSig, BigList[1], OneList[1]}

SigListsOfLen(n) ==
    IF n = 0 THEN {<<>>}
    ELSE {<<f>> \o rest :
             f \in FirstSlotValues,
             rest \in {[i \in 1 .. (n - 1) |-> NoSig],
                       [i \in 1 .. (n - 1) |-> BigList[i + 1]]}}

SigLists == UNION {SigListsOfLen(n) : n \in 0 .. MaxValidators}

\* The authority proofs sent with a signature list: the proof of the signer
\* positions in the tree of BigList and, when the first slot is the only one
\* signed, also that proof with a foreign node in front.
ProofsFor(s) ==
    LET pr == MerkleProofFor(BigList, {i - 1 : i \in SignerSlots(s)})
    IN {pr} \cup (IF SignerSlots(s) = {1} THEN {<<BogusNode>> \o pr} ELSE {})

SigParts ==
    UNION {{[signatures |-> s, authority_proof |-> pr] : pr \in ProofsFor(s)} :
              s \in SigLists}

Updates ==
    {[block_number |-> b, validator_set_id |-> v,
      payload |-> m.payload, signatures |-> sp.signatures,
      authority_proof |-> sp.authority_proof,
      leaf_index |-> m.leaf_index, leaf_set |-> m.leaf_set,
      mmr_proof |-> m.mmr_proof] :
        b \in 0 .. MaxHeight, v \in 0 .. MaxId, m \in MmrParts, sp \in SigParts}

NoUpdate ==
    [block_number |-> 0, validator_set_id |-> 0, payload |-> <<>>,
     signatures |-> <<>>, authority_proof |-> <<>>, leaf_index |-> 0,
     leaf_set |-> NoSet, mmr_proof |-> <<>>]

\* ------------------------------------------------------- handler, pure part
\* A u32 is held as two 16-bit halves [hi, lo] (value hi * 2^16 + lo), so that
\* every u32 value and the wrap of 2 * len at 2^32 can be written down.
U32Half == 65536

IntToU32(n) == [hi |-> n \div U32Half, lo |-> n % U32Half]

U32ToInt(x) == x.hi * U32Half + x.lo

\* 2 * x in u32: the wrapped product, and whether it overflowed.
Mul2U32(x) ==
    LET lo2 == 2 * x.lo
        hi2 == 2 * x.hi + (lo2 \div U32Half)
    IN [value |-> [hi |-> hi2 % U32Half, lo |-> lo2 % U32Half],
        overflow |-> hi2 >= U32Half]

\* x / 3 in u32 (long division over the two halves).
Div3U32(x) ==
    [hi |-> x.hi \div 3, lo |-> ((x.hi % 3) * U32Half + x.lo) \div 3]

\* x + 1 in u32 (wrapping).
Add1U32(x) ==
    IF x.lo + 1 < U32Half THEN [hi |-> x.hi, lo |-> x.lo + 1]
    ELSE [hi |-> (x.hi + 1) % U32Half, lo |-> 0]

\* fn authority_threshold on a u32 len, as a build without overflow checks
\* computes it: ((2 * len) / 3) + 1 with the product wrapped at 2^32.
authority_threshold_wrapping(len) == Add1U32(Div3U32(Mul2U32(len).value))

\* The outcomes of fn authority_threshold on a u32 len: where 2 * len does not
\* fit in 32 bits a build with overflow checks panics and one without them
\* goes on with the wrapped product.
authority_threshold_outcomes(len) ==
    IF Mul2U32(len).overflow
    THEN {[panicked |-> TRUE, value |-> IntToU32(0)],
          [panicked |-> FALSE, value |-> authority_threshold_wrapping(len)]}
    ELSE {[panicked |-> FALSE, value |-> authority_threshold_wrapping(len)]}

\* fn authority_threshold for the sets of the ingest model, whose len is far
\* below 2^31.
authority_threshold(set) ==
    U32ToInt(authority_threshold_wrapping(IntToU32(set.len)))

\* fn validate_sigs_against_threshold
validate_sigs_against_threshold(set, sigs_len) ==
    sigs_len >= authority_threshold(set)

\* fn validate_sigs_against_threshold on a u32 len (lib.rs:204-206) in a build
\* with or without overflow checks: the panic of the product of lib.rs:200, or
\* the comparison of sigs_len with the threshold the build computes.
validate_sigs_against_threshold_u32(len, sigs_len, overflow_checks) ==
    IF overflow_checks /\ Mul2U32(len).overflow
    THEN "Panic"
    ELSE IF sigs_len >= U32ToInt(authority_threshold_wrapping(len))
    THEN "true"
    ELSE "false"

\* lib.rs:50-55: the condition !validate(current) && !validate(next), read from
\* the left; the set of the next authorities is looked at only when the
\* current one does not reach its threshold.
threshold_gate(current_len, next_len, signatures_len, overflow_checks) ==
    LET c == validate_sigs_against_threshold_u32(current_len, signatures_len,
                                                 overflow_checks)
        n == validate_sigs_against_threshold_u32(next_len, signatures_len,
                                                 overflow_checks)
    IN IF c = "Panic" THEN "Panic"
       ELSE IF c = "true" THEN "pass"
       ELSE IF n = "Panic" THEN "Panic"
       ELSE IF n = "true" THEN "pass"
       ELSE "InvalidMmrUpdate"

\* The (position, signature) pairs kept by the filter_map of lib.rs:85-96:
\* Some(sig) with sig.len() == SIGNATURE_LEN; positions count from 0.
KeptSlots(sigs) ==
    {i \in 1 .. Len(sigs) : sigs[i] # NoSig /\ SigLen(sigs[i]) = SIGNATURE_LEN}

\* lib.rs:83-96: enumerate() and filter_map over the signature slots from
\* position i on: the kept (position, signature) pairs in the order of the list.
RECURSIVE FilterMapFrom(_, _)
FilterMapFrom(sigs, i) ==
    IF i > Len(sigs) THEN <<>>
    ELSE (IF sigs[i] # NoSig /\ SigLen(sigs[i]) = SIGNATURE_LEN
          THEN <<[idx |-> i - 1, sig |-> sigs[i]]>>
          ELSE <<>>) \o FilterMapFrom(sigs, i + 1)

\* lib.rs:80-107: authority_addresses_and_indices when every recovery succeeds.
authority_addresses_and_indices(sigs) ==
    LET kept == FilterMapFrom(sigs, 1)
    IN [n \in 1 .. Len(kept) |->
          [idx |-> kept[n].idx, addr |-> RecoverAddress(kept[n].sig)]]

\* AuthorityLeaves with every signer indexed by its rank among the kept slots
\* in place of its position in the list.
AuthorityLeaves_Compacted(sigs) ==
    [i \in {Cardinality({k \in KeptSlots(sigs) : k < j}) : j \in KeptSlots(sigs)} |->
        LeafHash(RecoverAddress(
            sigs[CHOOSE j \in KeptSlots(sigs) :
                    Cardinality({k \in KeptSlots(sigs) : k < j}) = i]))]

\* authority_leaf_indices and authority_leaves (lib.rs:118-126) as a map from
\* leaf index to leaf hash.
AuthorityLeaves(sigs) ==
    [i \in {j - 1 : j \in KeptSlots(sigs)} |-> LeafHash(RecoverAddress(sigs[i + 1]))]

\* AuthorityChecks without the test of the length of the "mh" value.
AuthorityChecks_NoLengthCheck(u, current, next) ==
    LET signatures_len == Len(u.signatures)
        validator_set_id == u.validator_set_id
        mh == GetRaw(u.payload, MMR_ROOT_ID)
    IN IF /\ ~validate_sigs_against_threshold(current, signatures_len)
          /\ ~validate_sigs_against_threshold(next, signatures_len)
       THEN "InvalidMmrUpdate"
       ELSE IF current.id # validator_set_id /\ next.id # validator_set_id
       THEN "InvalidMmrUpdate"
       ELSE IF mh = <<>>
       THEN "InvalidMmrUpdate"
       ELSE IF \E i \in KeptSlots(u.signatures) : RecoverAddress(u.signatures[i]) = 0
       THEN "InvalidSignature"
       ELSE IF current.id = validator_set_id
       THEN IF ~MerkleVerify(u.authority_proof, current.root,
                             AuthorityLeaves(u.signatures), current.len)
            THEN "InvalidAuthorityProof" ELSE "pass"
       ELSE IF next.id = validator_set_id
       THEN IF ~MerkleVerify(u.authority_proof, next.root,
                             AuthorityLeaves(u.signatures), next.len)
            THEN "InvalidAuthorityProof" ELSE "pass"
       ELSE "pass"

\* AuthorityChecks accepting an authority proof that verifies against either
\* of the two stored sets.
AuthorityChecks_EitherSet(u, current, next) ==
    LET signatures_len == Len(u.signatures)
        validator_set_id == u.validator_set_id
        mh == GetRaw(u.payload, MMR_ROOT_ID)
    IN IF /\ ~validate_sigs_against_threshold(current, signatures_len)
          /\ ~validate_sigs_against_threshold(next, signatures_len)
       THEN "InvalidMmrUpdate"
       ELSE IF current.id # validator_set_id /\ next.id # validator_set_id
       THEN "InvalidMmrUpdate"
       ELSE IF mh = <<>>
       THEN "InvalidMmrUpdate"
       ELSE IF mh[1].len # HASH_LENGTH
       THEN "InvalidRootHash"
       ELSE IF \E i \in KeptSlots(u.signatures) : RecoverAddress(u.signatures[i]) = 0
       THEN "InvalidSignature"
       ELSE IF /\ ~MerkleVerify(u.authority_proof, current.root,
                                AuthorityLeaves(u.signatures), current.len)
               /\ ~MerkleVerify(u.authority_proof, next.root,
                                AuthorityLeaves(u.signatures), next.len)
       THEN "InvalidAuthorityProof"
       ELSE "pass"

\* lib.rs:47-150: the checks made between the read of the next authority set
\* and the read of the latest height; "pass" or the error returned.
AuthorityChecks(u, current, next) ==
    LET signatures_len == Len(u.signatures)
        validator_set_id == u.validator_set_id
        mh == GetRaw(u.payload, MMR_ROOT_ID)
    IN IF /\ ~validate_sigs_against_threshold(current, signatures_len)
          /\ ~validate_sigs_against_threshold(next, signatures_len)
       THEN "InvalidMmrUpdate"
       ELSE IF current.id # validator_set_id /\ next.id # validator_set_id
       THEN "InvalidMmrUpdate"
       ELSE IF mh = <<>>
       THEN "InvalidMmrUpdate"
       ELSE IF mh[1].len # HASH_LENGTH
       THEN "InvalidRootHash"
       ELSE IF \E i \in KeptSlots(u.signatures) : RecoverAddress(u.signatures[i]) = 0
       THEN "InvalidSignature"
       ELSE IF current.id = validator_set_id
       THEN IF ~MerkleVerify(u.authority_proof, current.root,
                             AuthorityLeaves(u.signatures), current.len)
            THEN "InvalidAuthorityProof" ELSE "pass"
       ELSE IF next.id = validator_set_id
       THEN IF ~MerkleVerify(u.authority_proof, next.root,
                             AuthorityLeaves(u.signatures), next.len)
            THEN "InvalidAuthorityProof" ELSE "pass"
       ELSE "pass"

\* authorities_changed set whenever next.id matches, current.id not consulted.
AuthoritiesChangedOf_NextOnly(u, current, next) ==
    next.id = u.validator_set_id

\* lib.rs:109,129-150: authorities_changed after the verification succeeded.
AuthoritiesChangedOf(u, current, next) ==
    current.id # u.validator_set_id /\ next.id = u.validator_set_id

\* lib.rs:62-74: mmr_root_hash, the value of the "mh" entry.
MmrRootHashOf(u) == GetRaw(u.payload, MMR_ROOT_ID)[1].val

\* The monotonicity check with < in place of <=.
HeightChecks_AllowEqual(u, latest_beefy_height, overflow_checks) ==
    IF u.block_number < latest_beefy_height
    THEN "InvalidMmrUpdate"
    ELSE IF overflow_checks /\ u.leaf_index = U64_MAX
    THEN "Panic"
    ELSE IF ~VerifyLeafProof(MmrRootHashOf(u), MmrLeafHash(u.leaf_set),
                             u.leaf_index, u.leaf_index + 1, u.mmr_proof)
    THEN "InvalidMmrProof"
    ELSE "pass"

\* The monotonicity check off by one: block_number <= latest + 1 is rejected.
HeightChecks_OffByOne(u, latest_beefy_height, overflow_checks) ==
    IF u.block_number <= latest_beefy_height + 1
    THEN "InvalidMmrUpdate"
    ELSE IF overflow_checks /\ u.leaf_index = U64_MAX
    THEN "Panic"
    ELSE IF ~VerifyLeafProof(MmrRootHashOf(u), MmrLeafHash(u.leaf_set),
                             u.leaf_index, u.leaf_index + 1, u.mmr_proof)
    THEN "InvalidMmrProof"
    ELSE "pass"

\* HeightChecks without the monotonicity check.
HeightChecks_SkipsMonotonicity(u, latest_beefy_height, overflow_checks) ==
    IF overflow_checks /\ u.leaf_index = U64_MAX
    THEN "Panic"
    ELSE IF ~VerifyLeafProof(MmrRootHashOf(u), MmrLeafHash(u.leaf_set),
                        u.leaf_index, u.leaf_index + 1, u.mmr_proof)
    THEN "InvalidMmrProof"
    ELSE "pass"

\* lib.rs:154-180: the checks made after the read of the latest height. The
\* sum index + 1 of lib.rs:163 panics for the index u64::MAX in a build with
\* overflow checks and wraps to 0 in a build without them.
HeightChecks(u, latest_beefy_height, overflow_checks) ==
    IF u.block_number <= latest_beefy_height
    THEN "InvalidMmrUpdate"
    ELSE IF overflow_checks /\ u.leaf_index = U64_MAX
    THEN "Panic"
    ELSE IF ~VerifyLeafProof(MmrRootHashOf(u), MmrLeafHash(u.leaf_set),
                             u.leaf_index, u.leaf_index + 1, u.mmr_proof)
    THEN "InvalidMmrProof"
    ELSE "pass"

\* fn ingest_mmr_root_with_proof (lib.rs:44-196) as a function of the update,
\* the store before the call and the storage results: `fail` is the number of
\* the store call that returns an error, counted in the order of the code
\* (1 current_authority_set, 2 next_authority_set, 3 latest_height,
\* 4 set_latest_height, 5 set_latest_mmr_root_hash, 6 set_current_authority_set,
\* 7 set_next_authority_set), 0 when none does; overflow_checks tells whether
\* the build checks its arithmetic. The result "Panic" stands for a call that
\* panics and returns no Result.
ingest_mmr_root_with_proof(u, st, fail, overflow_checks) ==
    LET a == AuthorityChecks(u, st.current, st.next)
        h == HeightChecks(u, st.height, overflow_checks)
        s1 == [st EXCEPT !.height = u.block_number]
        s2 == [s1 EXCEPT !.root = MmrRootHashOf(u)]
        s3 == [s2 EXCEPT !.current = st.next]
        s4 == [s3 EXCEPT !.next = u.leaf_set]
    IN IF fail \in {1, 2} THEN [result |-> "StorageReadError", store |-> st]
       ELSE IF a # "pass" THEN [result |-> a, store |-> st]
       ELSE IF fail = 3 THEN [result |-> "StorageReadError", store |-> st]
       ELSE IF h # "pass" THEN [result |-> h, store |-> st]
       ELSE IF fail = 4 THEN [result |-> "StorageWriteError", store |-> st]
       ELSE IF fail = 5 THEN [result |-> "StorageWriteError", store |-> s1]
       ELSE IF ~AuthoritiesChangedOf(u, st.current, st.next)
       THEN [result |-> "Ok", store |-> s2]
       ELSE IF fail = 6 THEN [result |-> "StorageWriteError", store |-> s2]
       ELSE IF fail = 7 THEN [result |-> "StorageWriteError", store |-> s3]
       ELSE [result |-> "Ok", store |-> s4]

\* ------------------------------------------------------------------ state
Callers == {1}

VARIABLES
    store,      \* the four cells behind Self::Store
    pc,         \* per caller: the store call it is about to make
    upd,        \* per caller: the MmrUpdateProof of the call in progress
    cur,        \* per caller: current_authority_set as read (lib.rs:45)
    nxt,        \* per caller: next_authority_set as read (lib.rs:46)
    changed,    \* per caller: authorities_changed
    result,     \* per caller: the value returned by the call
    pre         \* per caller: the store when the call was made

vars == <<store, pc, upd, cur, nxt, changed, result, pre>>

InitStores ==
    {[height |-> 0, root |-> NoHash,
      current |-> AuthoritySetOf(0, BigList),
      next |-> AuthoritySetOf(1, l)] : l \in ValidatorLists}

Init ==
    /\ store \in InitStores
    /\ pc = [p \in Callers |-> "idle"]
    /\ upd = [p \in Callers |-> NoUpdate]
    /\ cur = [p \in Callers |-> NoSet]
    /\ nxt = [p \in Callers |-> NoSet]
    /\ changed = [p \in Callers |-> FALSE]
    /\ result = [p \in Callers |-> "none"]
    /\ pre = [p \in Callers |-> store]

\* Return from the call with result r.
Finish(p, r) ==
    /\ pc' = [pc EXCEPT ![p] = "done"]
    /\ result' = [result EXCEPT ![p] = r]

\* The call ingest_mmr_root_with_proof(u) up to its first store call,
\* Store::current_authority_set() (lib.rs:44-45).
ReadCurrent(p, ok) ==
    /\ pc[p] = "idle"
    /\ \A q \in Callers : pc[q] = "idle"
    /\ \E u \in Updates : upd' = [upd EXCEPT ![p] = u]
    /\ pre' = [pre EXCEPT ![p] = store]
    /\ IF ok
       THEN /\ cur' = [cur EXCEPT ![p] = store.current]
            /\ pc' = [pc EXCEPT ![p] = "read_next"]
            /\ UNCHANGED result
       ELSE /\ Finish(p, "StorageReadError")
            /\ UNCHANGED cur
    /\ UNCHANGED <<store, nxt, changed>>

\* Store::next_authority_set() and the checks up to lib.rs:150.
ReadNext(p, ok) ==
    /\ pc[p] = "read_next"
    /\ IF ok
       THEN LET r == AuthorityChecks(upd[p], cur[p], store.next)
            IN /\ nxt' = [nxt EXCEPT ![p] = store.next]
               /\ IF r = "pass"
                  THEN /\ changed' = [changed EXCEPT ![p] =
                                        AuthoritiesChangedOf(upd[p], cur[p], store.next)]
                       /\ pc' = [pc EXCEPT ![p] = "read_height"]
                       /\ UNCHANGED result
                  ELSE /\ Finish(p, r)
                       /\ UNCHANGED changed
       ELSE /\ Finish(p, "StorageReadError")
            /\ UNCHANGED <<nxt, changed>>
    /\ UNCHANGED <<store, upd, cur, pre>>

\* ReadHeightBuilt checking block_number against the height of the last
\* update another call of the process accepted, remembered outside the store,
\* and against the stored height only when there is none.
ReadHeightBuilt_Remembered(p, ok, overflow_checks) ==
    /\ pc[p] = "read_height"
    /\ IF ok
       THEN LET accepted == {q \in DOMAIN result : q # p /\ result[q] = "Ok"}
                latest == IF accepted = {} THEN store.height
                          ELSE upd[CHOOSE q \in accepted : TRUE].block_number
                r == HeightChecks(upd[p], latest, overflow_checks)
            IN IF r = "pass"
               THEN /\ pc' = [pc EXCEPT ![p] = "set_height"]
                    /\ UNCHANGED result
               ELSE Finish(p, r)
       ELSE Finish(p, "StorageReadError")
    /\ UNCHANGED <<store, upd, cur, nxt, changed, pre>>

\* Store::latest_height() and the checks up to lib.rs:180, in a build with or
\* without overflow checks.
ReadHeightBuilt(p, ok, overflow_checks) ==
    /\ pc[p] = "read_height"
    /\ IF ok
       THEN LET r == HeightChecks(upd[p], store.height, overflow_checks)
            IN IF r = "pass"
               THEN /\ pc' = [pc EXCEPT ![p] = "set_height"]
                    /\ UNCHANGED result
               ELSE Finish(p, r)
       ELSE Finish(p, "StorageReadError")
    /\ UNCHANGED <<store, upd, cur, nxt, changed, pre>>

\* Store::latest_height() and the checks up to lib.rs:180, in either build.
ReadHeight(p, ok) ==
    \E overflow_checks \in BOOLEAN : ReadHeightBuilt(p, ok, overflow_checks)

\* Store::set_latest_height(block_number) (lib.rs:182).
SetHeight(p, ok) ==
    /\ pc[p] = "set_height"
    /\ IF ok
       THEN /\ store' = [store EXCEPT !.height = upd[p].block_number]
            /\ pc' = [pc EXCEPT ![p] = "set_root"]
            /\ UNCHANGED result
       ELSE /\ Finish(p, "StorageWriteError")
            /\ UNCHANGED store
    /\ UNCHANGED <<upd, cur, nxt, changed, pre>>

\* SetRoot going on to the two authority-set writes whether or not a rotation
\* was selected.
SetRoot_AlwaysRotates(p, ok) ==
    /\ pc[p] = "set_root"
    /\ IF ok
       THEN /\ store' = [store EXCEPT !.root = MmrRootHashOf(upd[p])]
            /\ pc' = [pc EXCEPT ![p] = "set_current"]
            /\ UNCHANGED result
       ELSE /\ Finish(p, "StorageWriteError")
            /\ UNCHANGED store
    /\ UNCHANGED <<upd, cur, nxt, changed, pre>>

\* SetRoot without the write of the root.
SetRoot_KeepsRoot(p, ok) ==
    /\ pc[p] = "set_root"
    /\ IF ok
       THEN /\ UNCHANGED store
            /\ IF changed[p]
               THEN /\ pc' = [pc EXCEPT ![p] = "set_current"]
                    /\ UNCHANGED result
               ELSE Finish(p, "Ok")
       ELSE /\ Finish(p, "StorageWriteError")
            /\ UNCHANGED store
    /\ UNCHANGED <<upd, cur, nxt, changed, pre>>

\* Store::set_latest_mmr_root_hash(mmr_root_hash) (lib.rs:183) and, when no
\* rotation is pending, the return of Ok (lib.rs:185,195).
SetRoot(p, ok) ==
    /\ pc[p] = "set_root"
    /\ IF ok
       THEN /\ store' = [store EXCEPT !.root = MmrRootHashOf(upd[p])]
            /\ IF changed[p]
               THEN /\ pc' = [pc EXCEPT ![p] = "set_current"]
                    /\ UNCHANGED result
               ELSE Finish(p, "Ok")
       ELSE /\ Finish(p, "StorageWriteError")
            /\ UNCHANGED store
    /\ UNCHANGED <<upd, cur, nxt, changed, pre>>

\* SetCurrent writing the current set read at the start in place of the next.
SetCurrent_WritesCurrent(p, ok) ==
    /\ pc[p] = "set_current"
    /\ IF ok
       THEN /\ store' = [store EXCEPT !.current = cur[p]]
            /\ pc' = [pc EXCEPT ![p] = "set_next"]
            /\ UNCHANGED result
       ELSE /\ Finish(p, "StorageWriteError")
            /\ UNCHANGED store
    /\ UNCHANGED <<upd, cur, nxt, changed, pre>>

\* Store::set_current_authority_set(next_authority_set) (lib.rs:186).
SetCurrent(p, ok) ==
    /\ pc[p] = "set_current"
    /\ IF ok
       THEN /\ store' = [store EXCEPT !.current = nxt[p]]
            /\ pc' = [pc EXCEPT ![p] = "set_next"]
            /\ UNCHANGED result
       ELSE /\ Finish(p, "StorageWriteError")
            /\ UNCHANGED store
    /\ UNCHANGED <<upd, cur, nxt, changed, pre>>

\* Store::set_next_authority_set(leaf.beefy_next_authority_set) (lib.rs:187-195).
SetNext(p, ok) ==
    /\ pc[p] = "set_next"
    /\ IF ok
       THEN /\ store' = [store EXCEPT !.next = upd[p].leaf_set]
            /\ Finish(p, "Ok")
       ELSE /\ Finish(p, "StorageWriteError")
            /\ UNCHANGED store
    /\ UNCHANGED <<upd, cur, nxt, changed, pre>>

\* The caller takes the result; its locals are dropped.
Return(p) ==
    /\ pc[p] = "done"
    /\ pc' = [pc EXCEPT ![p] = "idle"]
    /\ upd' = [upd EXCEPT ![p] = NoUpdate]
    /\ cur' = [cur EXCEPT ![p] = NoSet]
    /\ nxt' = [nxt EXCEPT ![p] = NoSet]
    /\ changed' = [changed EXCEPT ![p] = FALSE]
    /\ result' = [result EXCEPT ![p] = "none"]
    /\ pre' = [pre EXCEPT ![p] = store]
    /\ UNCHANGED store

Next ==
    \E p \in Callers :
        \/ \E ok \in BOOLEAN : ReadCurrent(p, ok)
        \/ \E ok \in BOOLEAN : ReadNext(p, ok)
        \/ \E ok \in BOOLEAN : ReadHeight(p, ok)
        \/ \E ok \in BOOLEAN : SetHeight(p, ok)
        \/ \E ok \in BOOLEAN : SetRoot(p, ok)
        \/ \E ok \in BOOLEAN : SetCurrent(p, ok)
        \/ \E ok \in BOOLEAN : SetNext(p, ok)
        \/ Return(p)

Spec == Init /\ [][Next]_vars

\* ------------------------------------------------------------ properties
Returned(p, r) == pc[p] = "done" /\ result[p] = r

StorageErrors == {"StorageReadError", "StorageWriteError"}

\* floor(2 * len / 3) + 1, the signature threshold of the specification.
Threshold(len) == ((2 * len) \div 3) + 1

\* The set the specification selects for an update with this validator_set_id.
ActiveSet(u, st) ==
    IF u.validator_set_id = st.current.id THEN st.current ELSE st.next

\* The validator list a root commits to.
ListOfRoot(root) ==
    IF \E l \in ValidatorLists : MerkleRoot(l) = root
    THEN CHOOSE l \in ValidatorLists : MerkleRoot(l) = root
    ELSE <<>>

\* The positions of a signature list whose signature recovers to the
\* validator of `set` at that position.
MemberSigners(sigs, set) ==
    {i \in 1 .. Len(sigs) :
        /\ i <= Len(ListOfRoot(set.root))
        /\ sigs[i] = ListOfRoot(set.root)[i]}

\* The 32-byte values of the payload entries with id "mh".
MhValues(u) ==
    {u.payload[n].val : n \in {m \in 1 .. Len(u.payload) :
                                  u.payload[m].id = "mh" /\ u.payload[m].len = 32}}

\* C1: the stored latest_beefy_height never falls below its value at the start
\* of a call, and a call that returns Ok leaves it equal to the commitment's
\* block_number and strictly above its value before the call.
C1_HeightMonotone ==
    \A p \in Callers :
        /\ store.height >= pre[p].height
        /\ Returned(p, "Ok") =>
              /\ store.height = upd[p].block_number
              /\ store.height > pre[p].height

\* A second successful ingest, on top of a height set by a first one.
C1_Witness ==
    \E p \in Callers :
        /\ Returned(p, "Ok")
        /\ pre[p].height > 0
        /\ store.height = upd[p].block_number
        /\ store.height > pre[p].height

\* C2: a call that returns an error of any kind leaves the store as it was
\* before the call.
C2_ErrorLeavesStore ==
    \A p \in Callers :
        (pc[p] = "done" /\ result[p] # "Ok") => store = pre[p]

\* C3: no call returns Ok when fewer than floor(2*len/3)+1 positions carry a
\* signature of a member of the active set.
C3_NoOkBelowThreshold ==
    \A p \in Callers :
        Returned(p, "Ok") =>
            Cardinality(MemberSigners(upd[p].signatures, ActiveSet(upd[p], pre[p])))
                >= Threshold(ActiveSet(upd[p], pre[p]).len)

\* C4: after a successful ingest next.id = current.id + 1.
C4_ConsecutiveIds ==
    \A p \in Callers :
        Returned(p, "Ok") => store.next.id = store.current.id + 1

\* The store as a call leaves it when it commits completely.
PostStore(p) ==
    [height |-> upd[p].block_number,
     root |-> MmrRootHashOf(upd[p]),
     current |-> IF changed[p] THEN pre[p].next ELSE pre[p].current,
     next |-> IF changed[p] THEN upd[p].leaf_set ELSE pre[p].next]

\* C5: while a call commits, the store that a reader sees is either the
\* complete state before the call or the complete state after it.
C5_AtomicCommit ==
    \A p \in Callers :
        pc[p] \in {"set_root", "set_current", "set_next"} =>
            store \in {pre[p], PostStore(p)}

\* The checks of the specification (section 4.5, steps 2 to 6 and 8), stated
\* on the update and the store before the call.
GateOk(u, st) ==
    \/ Len(u.signatures) >= Threshold(st.current.len)
    \/ Len(u.signatures) >= Threshold(st.next.len)

SelectionOk(u, st) == u.validator_set_id \in {st.current.id, st.next.id}

HasMh(u) == \E n \in 1 .. Len(u.payload) : u.payload[n].id = "mh"

FirstMh(u) ==
    u.payload[Min({n \in 1 .. Len(u.payload) : u.payload[n].id = "mh"})]

PayloadOk(u) == HasMh(u) /\ FirstMh(u).len = 32

RecoveryOk(u) == \A i \in 1 .. Len(u.signatures) : u.signatures[i] # BadSig

AuthorityProofOk(u, st) ==
    MerkleVerify(u.authority_proof, ActiveSet(u, st).root,
                 AuthorityLeaves(u.signatures), ActiveSet(u, st).len)

MmrProofOk(u) ==
    /\ PayloadOk(u)
    /\ VerifyLeafProof(FirstMh(u).val, MmrLeafHash(u.leaf_set),
                       u.leaf_index, u.leaf_index + 1, u.mmr_proof)

OtherChecksPass(u, st) ==
    /\ GateOk(u, st)
    /\ SelectionOk(u, st)
    /\ PayloadOk(u)
    /\ RecoveryOk(u)
    /\ AuthorityProofOk(u, st)
    /\ MmrProofOk(u)

\* C6: when no storage call fails and every other check passes, an update with
\* block_number <= latest_beefy_height fails with InvalidMmrUpdate and one with
\* block_number = latest_beefy_height + 1 returns Ok.
C6_Monotonicity ==
    \A p \in Callers :
        (/\ pc[p] = "done"
         /\ result[p] \notin StorageErrors
         /\ OtherChecksPass(upd[p], pre[p])) =>
            /\ upd[p].block_number <= pre[p].height => result[p] = "InvalidMmrUpdate"
            /\ upd[p].block_number = pre[p].height + 1 => result[p] = "Ok"

\* A stale update (block_number equal to a height set by an earlier ingest)
\* that passes every other check and is rejected.
C6_Witness ==
    \E p \in Callers :
        /\ Returned(p, "InvalidMmrUpdate")
        /\ OtherChecksPass(upd[p], pre[p])
        /\ pre[p].height > 0
        /\ upd[p].block_number = pre[p].height

\* C8: an update whose validator_set_id is neither current.id nor next.id fails
\* with InvalidMmrUpdate; past the selection, the signers were verified against
\* current when validator_set_id = current.id (also when next.id is the same)
\* and against next otherwise, and a rotation is pending exactly when
\* validator_set_id = next.id and not current.id.
C8_SetSelection ==
    \A p \in Callers :
        /\ (pc[p] = "done" /\ result[p] # "StorageReadError"
                /\ ~SelectionOk(upd[p], pre[p])) => result[p] = "InvalidMmrUpdate"
        /\ (pc[p] \in {"read_height", "set_height", "set_root", "set_current", "set_next"}
                \/ Returned(p, "Ok")) =>
              /\ SelectionOk(upd[p], pre[p])
              /\ AuthorityProofOk(upd[p], pre[p])
              /\ changed[p] <=> (/\ upd[p].validator_set_id = pre[p].next.id
                                 /\ upd[p].validator_set_id # pre[p].current.id)
        /\ (Returned(p, "Ok") /\ upd[p].validator_set_id = pre[p].current.id) =>
              /\ store.current = pre[p].current
              /\ store.next = pre[p].next

\* Both stored sets have the id of the update but differ; the update was
\* accepted under current and nothing was rotated.
C8_Witness ==
    \E p \in Callers :
        /\ Returned(p, "Ok")
        /\ upd[p].validator_set_id = pre[p].current.id
        /\ pre[p].next.id = pre[p].current.id
        /\ pre[p].next # pre[p].current
        /\ upd[p].leaf_set # pre[p].next
        /\ store.current = pre[p].current
        /\ store.next = pre[p].next

\* C9: a successful ingest with validator_set_id = current.id stores the
\* commitment's block_number and the 32-byte "mh" value, and leaves both
\* authority sets as they were.
C9_NoRotationEffect ==
    \A p \in Callers :
        (Returned(p, "Ok") /\ upd[p].validator_set_id = pre[p].current.id) =>
            /\ store.height = upd[p].block_number
            /\ store.root \in MhValues(upd[p])
            /\ store.root = FirstMh(upd[p]).val
            /\ store.current = pre[p].current
            /\ store.next = pre[p].next

C9_Witness ==
    \E p \in Callers :
        /\ Returned(p, "Ok")
        /\ upd[p].validator_set_id = pre[p].current.id
        /\ upd[p].leaf_set # pre[p].next
        /\ store.root # pre[p].root
        /\ store.root = FirstMh(upd[p]).val
        /\ store.height = upd[p].block_number
        /\ store.current = pre[p].current /\ store.next = pre[p].next

\* C10: a successful ingest with validator_set_id = next.id and not current.id
\* stores the former next set as current, the leaf's beefy_next_authority_set
\* as next, and the new height and MMR root.
C10_Rotation ==
    \A p \in Callers :
        (/\ Returned(p, "Ok")
         /\ upd[p].validator_set_id = pre[p].next.id
         /\ upd[p].validator_set_id # pre[p].current.id) =>
            /\ store.current = pre[p].next
            /\ store.next = upd[p].leaf_set
            /\ store.height = upd[p].block_number
            /\ store.root = FirstMh(upd[p]).val

C10_Witness ==
    \E p \in Callers :
        /\ Returned(p, "Ok")
        /\ upd[p].validator_set_id = pre[p].next.id
        /\ upd[p].validator_set_id # pre[p].current.id
        /\ pre[p].next # pre[p].current
        /\ upd[p].leaf_set # pre[p].next
        /\ store.current = pre[p].next
        /\ store.next = upd[p].leaf_set
        /\ store.height > pre[p].height

\* The checks of the specification in its order (section 4.5, steps 2 to 8):
\* the error of the first one that fails, "Ok" when none does.
FirstFailure(u, st) ==
    IF ~GateOk(u, st) THEN "InvalidMmrUpdate"
    ELSE IF ~SelectionOk(u, st) THEN "InvalidMmrUpdate"
    ELSE IF ~HasMh(u) THEN "InvalidMmrUpdate"
    ELSE IF ~PayloadOk(u) THEN "InvalidRootHash"
    ELSE IF ~RecoveryOk(u) THEN "InvalidSignature"
    ELSE IF ~AuthorityProofOk(u, st) THEN "InvalidAuthorityProof"
    ELSE IF u.block_number <= st.height THEN "InvalidMmrUpdate"
    ELSE IF ~MmrProofOk(u) THEN "InvalidMmrProof"
    ELSE "Ok"

\* C11: a call in which no storage call fails returns the error of the first
\* failing check in the order threshold gate, set selection, payload
\* extraction, signature recovery, authority Merkle verification,
\* monotonicity, MMR verification; an invalid authority proof with a stale
\* block_number gives InvalidAuthorityProof, and a missing "mh" entry with an
\* unrecoverable signature gives InvalidMmrUpdate.
C11_FirstFailingCheck ==
    \A p \in Callers :
        (pc[p] = "done" /\ result[p] \notin StorageErrors) =>
            /\ result[p] = FirstFailure(upd[p], pre[p])
            /\ (/\ GateOk(upd[p], pre[p]) /\ SelectionOk(upd[p], pre[p])
                /\ PayloadOk(upd[p]) /\ RecoveryOk(upd[p])
                /\ ~AuthorityProofOk(upd[p], pre[p])
                /\ upd[p].block_number <= pre[p].height) =>
                  result[p] = "InvalidAuthorityProof"
            /\ (/\ GateOk(upd[p], pre[p]) /\ SelectionOk(upd[p], pre[p])
                /\ ~HasMh(upd[p]) /\ ~RecoveryOk(upd[p])) =>
                  result[p] = "InvalidMmrUpdate"

\* The errors returned by the checks of an update.
CheckErrors ==
    {"InvalidMmrUpdate", "InvalidRootHash", "InvalidSignature",
     "InvalidAuthorityProof", "InvalidMmrProof"}

\* C12: the reads of both authority sets and of the latest height are made
\* before any check runs: the step in which a call returns the error of a check
\* is never one made before the read of the latest height.
C12_ReadsBeforeChecks ==
    [][\A p \in Callers :
          (pc[p] # "done" /\ pc'[p] = "done" /\ result'[p] \in CheckErrors) =>
              pc[p] = "read_height"]_vars

\* C13: a call whose reads succeed and whose update passes the threshold gate
\* and the set selection fails with InvalidMmrUpdate when the payload has no
\* entry with id "mh" and with InvalidRootHash when the value of its "mh" entry
\* is not 32 bytes long; in both cases the store is as it was before the call.
C13_PayloadExtraction ==
    \A p \in Callers :
        (/\ pc[p] = "done"
         /\ result[p] # "StorageReadError"
         /\ GateOk(upd[p], pre[p])
         /\ SelectionOk(upd[p], pre[p])) =>
            /\ ~HasMh(upd[p]) =>
                  (result[p] = "InvalidMmrUpdate" /\ store = pre[p])
            /\ (HasMh(upd[p]) /\ FirstMh(upd[p]).len # 32) =>
                  (result[p] = "InvalidRootHash" /\ store = pre[p])

\* An "mh" value of 31 bytes in an update that is valid otherwise, sent after
\* an earlier ingest succeeded.
C13_Witness ==
    \E p \in Callers :
        /\ Returned(p, "InvalidRootHash")
        /\ GateOk(upd[p], pre[p]) /\ SelectionOk(upd[p], pre[p])
        /\ HasMh(upd[p]) /\ FirstMh(upd[p]).len = 31
        /\ RecoveryOk(upd[p]) /\ AuthorityProofOk(upd[p], pre[p])
        /\ upd[p].block_number > pre[p].height
        /\ pre[p].height > 0
        /\ store = pre[p]

\* The validator list of the set the specification selects.
ActiveList(u, st) == ListOfRoot(ActiveSet(u, st).root)

\* Every signed slot carries the signature of the validator that the active
\* list has at that position.
SignersInPlace(u, st) ==
    \A i \in SignerSlots(u.signatures) :
        /\ i <= Len(ActiveList(u, st))
        /\ u.signatures[i] = ActiveList(u, st)[i]

\* C14: for a call in which no storage call fails and whose update passes the
\* gate, the selection and the payload extraction: InvalidSignature is
\* returned exactly when some 65-byte signature does not recover (None and
\* short slots are skipped without error); the recovered signers are listed in
\* ascending order, each with its position in the original list minus one and
\* its address; an update whose signers stand at their own positions of the
\* active list and whose proof is the one of these positions passes the
\* authority check, and one that passes it has its signers in place.
C14_SignatureRecovery ==
    \A p \in Callers :
        (/\ pc[p] = "done"
         /\ result[p] \notin StorageErrors
         /\ GateOk(upd[p], pre[p])
         /\ SelectionOk(upd[p], pre[p])
         /\ PayloadOk(upd[p])) =>
            LET sigs == upd[p].signatures
                seq == authority_addresses_and_indices(sigs)
            IN /\ result[p] = "InvalidSignature" <=>
                      \E i \in 1 .. Len(sigs) : sigs[i] = BadSig
               /\ RecoveryOk(upd[p]) =>
                    /\ {seq[n].idx + 1 : n \in 1 .. Len(seq)} = SignerSlots(sigs)
                    /\ \A n \in 1 .. Len(seq) : seq[n].addr = sigs[seq[n].idx + 1]
                    /\ \A n \in 1 .. (Len(seq) - 1) : seq[n].idx < seq[n + 1].idx
                    /\ AuthorityLeaves(sigs) =
                          [i \in {seq[n].idx : n \in 1 .. Len(seq)} |->
                              LeafHash(sigs[i + 1])]
                    /\ (/\ SignersInPlace(upd[p], pre[p])
                        /\ SignerSlots(sigs) # {}
                        /\ upd[p].authority_proof =
                              MerkleProofFor(ActiveList(upd[p], pre[p]),
                                             {i - 1 : i \in SignerSlots(sigs)}))
                          => result[p] # "InvalidAuthorityProof"
                    /\ result[p] \in {"Ok", "InvalidMmrProof"} =>
                          SignersInPlace(upd[p], pre[p])

\* An accepted update whose first slot holds a signature of 64 bytes and whose
\* signers stand at the positions 2 and 3 (leaf indices 1 and 2).
C14_Witness ==
    \E p \in Callers :
        /\ Returned(p, "Ok")
        /\ Len(upd[p].signatures) = 3
        /\ upd[p].signatures[1] = ShortSig
        /\ SignerSlots(upd[p].signatures) = {2, 3}
        /\ DOMAIN AuthorityLeaves(upd[p].signatures) = {1, 2}
        /\ SignersInPlace(upd[p], pre[p])

\* The set that the specification does not select for this update.
OtherSet(u, st) ==
    IF u.validator_set_id = st.current.id THEN st.next ELSE st.current

\* The addresses of a validator list.
Members(list) == {list[i] : i \in 1 .. Len(list)}

\* The recovered signers as leaves: position minus one |-> hash of the address.
SignerLeaves(sigs) ==
    [i \in {j - 1 : j \in SignerSlots(sigs)} |-> <<sigs[i + 1]>>]

\* C15: for a call in which no storage call fails and whose update passes the
\* checks up to the signature recovery, InvalidAuthorityProof is returned
\* exactly when the authority proof, with the signers' indices and address
\* hashes, does not verify against the root and len of the active set; an
\* update that is accepted has only members of the active set as signers, so
\* that signers who are members of the other set only are never accepted.
C15_ActiveSetOnly ==
    \A p \in Callers :
        (/\ pc[p] = "done"
         /\ result[p] \notin StorageErrors
         /\ GateOk(upd[p], pre[p])
         /\ SelectionOk(upd[p], pre[p])
         /\ PayloadOk(upd[p])
         /\ RecoveryOk(upd[p])) =>
            LET u == upd[p]
                active == ActiveSet(u, pre[p])
                signers == {u.signatures[i] : i \in SignerSlots(u.signatures)}
            IN /\ result[p] = "InvalidAuthorityProof" <=>
                      ~MerkleVerify(u.authority_proof, active.root,
                                    SignerLeaves(u.signatures), active.len)
               /\ result[p] = "Ok" =>
                      signers \subseteq Members(ListOfRoot(active.root))
               /\ (/\ signers # {}
                   /\ signers \subseteq Members(ListOfRoot(OtherSet(u, pre[p]).root))
                   /\ signers \cap Members(ListOfRoot(active.root)) = {}) =>
                      result[p] = "InvalidAuthorityProof"

\* A signer that is a member of the next set only, in an update for the id of
\* the current set that passes the gate on the threshold of the next set.
C15_Witness ==
    \E p \in Callers :
        /\ Returned(p, "InvalidAuthorityProof")
        /\ upd[p].validator_set_id = pre[p].current.id
        /\ pre[p].next.id # pre[p].current.id
        /\ SignerSlots(upd[p].signatures) # {}
        /\ \A i \in SignerSlots(upd[p].signatures) :
              /\ upd[p].signatures[i] \in Members(ListOfRoot(pre[p].next.root))
              /\ upd[p].signatures[i] \notin Members(ListOfRoot(pre[p].current.root))
        /\ MerkleVerify(upd[p].authority_proof, pre[p].next.root,
                        SignerLeaves(upd[p].signatures), pre[p].next.len)
        /\ store = pre[p]

\* The MMR leaf of the update verifies as the leaf of index leaf_index in an
\* MMR of leaf_count leaves with this root.
LeafVerifiesUnder(u, root, leaf_count) ==
    VerifyLeafProof(root, MmrLeafHash(u.leaf_set), u.leaf_index, leaf_count,
                    u.mmr_proof)

EarlierChecksPass(u, st) ==
    /\ GateOk(u, st)
    /\ SelectionOk(u, st)
    /\ PayloadOk(u)
    /\ RecoveryOk(u)
    /\ AuthorityProofOk(u, st)
    /\ u.block_number > st.height

\* C16: for a call in which no storage call fails and whose update passes the
\* checks up to the monotonicity check, InvalidMmrProof is returned exactly
\* when the leaf does not verify as the tip (leaf_count = leaf_index + 1) under
\* the "mh" value of the payload, whatever the stored root; the store is then
\* as it was before the call.
C16_MmrTipUnderPayloadRoot ==
    \A p \in Callers :
        (/\ pc[p] = "done"
         /\ result[p] \notin StorageErrors
         /\ EarlierChecksPass(upd[p], pre[p])) =>
            /\ result[p] = "InvalidMmrProof" <=>
                  ~LeafVerifiesUnder(upd[p], FirstMh(upd[p]).val,
                                     upd[p].leaf_index + 1)
            /\ result[p] = "InvalidMmrProof" => store = pre[p]
            /\ result[p] \in {"InvalidMmrProof", "Ok"}

\* ------------------------------------------- two callers, store not serialised
\* Two threads of the embedding call ingest once each on a store that runs
\* their store calls in any interleaving.
ConcCallers == {1, 2}

\* The updates of the two threads: well-formed updates signed by every
\* validator of BigList, for any block_number, set id and announced set.
ConcUpdates ==
    {u \in Updates :
        /\ u.signatures = BigList
        /\ u.authority_proof = <<>>
        /\ u.leaf_index = 1
        /\ u.mmr_proof = <<LeftPeak>>
        /\ u.payload = <<MhEntry(HASH_LENGTH, ChainRoot(u.leaf_set))>>}

InitConc ==
    /\ store \in InitStores
    /\ pc = [p \in ConcCallers |-> "idle"]
    /\ upd = [p \in ConcCallers |-> NoUpdate]
    /\ cur = [p \in ConcCallers |-> NoSet]
    /\ nxt = [p \in ConcCallers |-> NoSet]
    /\ changed = [p \in ConcCallers |-> FALSE]
    /\ result = [p \in ConcCallers |-> "none"]
    /\ pre = [p \in ConcCallers |-> store]

\* The call ingest_mmr_root_with_proof(u) up to Store::current_authority_set()
\* (lib.rs:44-45), made whatever the other thread is doing.
ReadCurrentConcurrent(p, ok) ==
    /\ pc[p] = "idle"
    /\ \E u \in ConcUpdates : upd' = [upd EXCEPT ![p] = u]
    /\ pre' = [pre EXCEPT ![p] = store]
    /\ IF ok
       THEN /\ cur' = [cur EXCEPT ![p] = store.current]
            /\ pc' = [pc EXCEPT ![p] = "read_next"]
            /\ UNCHANGED result
       ELSE /\ Finish(p, "StorageReadError")
            /\ UNCHANGED cur
    /\ UNCHANGED <<store, nxt, changed>>

NextConc ==
    \E p \in ConcCallers :
        \/ \E ok \in BOOLEAN : ReadCurrentConcurrent(p, ok)
        \/ \E ok \in BOOLEAN : ReadNext(p, ok)
        \/ \E ok \in BOOLEAN : ReadHeight(p, ok)
        \/ \E ok \in BOOLEAN : SetHeight(p, ok)
        \/ \E ok \in BOOLEAN : SetRoot(p, ok)
        \/ \E ok \in BOOLEAN : SetCurrent(p, ok)
        \/ \E ok \in BOOLEAN : SetNext(p, ok)

SpecConc == InitConc /\ [][NextConc]_vars

\* Caller p has made its write of the latest height.
WroteHeight(p) ==
    \/ pc[p] \in {"set_root", "set_current", "set_next"}
    \/ Returned(p, "Ok")
    \/ (Returned(p, "StorageWriteError") /\ store.height = upd[p].block_number
            /\ pre[p].height # upd[p].block_number)

\* C17: with two ingests on a store that does not serialise them, the stored
\* height is lower than the block_number of a call that returned Ok only when
\* the other call wrote the height after it and the two calls overlapped:
\* each of them started before the other one's write of the height, so that
\* both passed the monotonicity check against the height from before both
\* commits.  Two calls of which one starts after the other has committed
\* never leave the height lower than a committed one.
C17_RegressOnlyByRace ==
    \A p \in ConcCallers : \A q \in ConcCallers \ {p} :
        (Returned(p, "Ok") /\ store.height < upd[p].block_number) =>
            /\ WroteHeight(q)
            /\ store.height = upd[q].block_number
            /\ pre[q].height < upd[p].block_number
            /\ pre[p].height < upd[q].block_number
            /\ pre[q].height = pre[p].height

\* Both calls returned Ok from the same old height and the store holds the
\* lower of the two block_numbers.
C17_Witness ==
    \E p \in ConcCallers : \E q \in ConcCallers \ {p} :
        /\ Returned(p, "Ok") /\ Returned(q, "Ok")
        /\ pre[p].height = pre[q].height
        /\ upd[q].block_number < upd[p].block_number
        /\ store.height = upd[q].block_number
        /\ store.height < upd[p].block_number

\* The store calls of one ingest, numbered in the order of the code.
StoreCallNumbers == 1 .. 7

\* The step machine follows fn ingest_mmr_root_with_proof as written in one
\* piece: a call in which no store call fails ends as the function says for no
\* failure, and a call that returns a storage error ends as it says for the
\* failure of one of the store calls.
IngestStepsFollowFunction ==
    \A p \in Callers :
        pc[p] = "done" =>
            LET out == [result |-> result[p], store |-> store]
            IN \E overflow_checks \in BOOLEAN :
                  IF result[p] \in StorageErrors
                  THEN \E fail \in StoreCallNumbers :
                          out = ingest_mmr_root_with_proof(upd[p], pre[p], fail,
                                                           overflow_checks)
                  ELSE out = ingest_mmr_root_with_proof(upd[p], pre[p], 0,
                                                        overflow_checks)

\* ------------------------------------------------ the same call made twice
\* Call 1 is made on a store, the store is put back as it was, and call 2 is
\* made with the same update. Besides its four cells the store of this part
\* tells how it answers: `fail` is the number of the store call of an ingest
\* that it answers with an error (0 for none), the same for both calls, and
\* `overflow_checks` is the build both calls run.
ReplayCallers == {1, 2}

\* The cells of the store before call 1: as the store starts, or as an update
\* of block 1 that every validator of BigList signed for the next set has
\* left it, after a rotation where the update was accepted.
ReplayCells ==
    InitStores \cup
        {ingest_mmr_root_with_proof(u, s, 0, FALSE).store :
            u \in {v \in ConcUpdates : v.block_number = 1 /\ v.validator_set_id = 1},
            s \in InitStores}

ReplayStores ==
    {[height |-> s.height, root |-> s.root, current |-> s.current,
      next |-> s.next, fail |-> f, overflow_checks |-> b] :
        s \in ReplayCells, f \in {0} \cup StoreCallNumbers, b \in BOOLEAN}

InitReplay ==
    /\ store \in ReplayStores
    /\ pc = [p \in ReplayCallers |-> "idle"]
    /\ upd = [p \in ReplayCallers |-> NoUpdate]
    /\ cur = [p \in ReplayCallers |-> NoSet]
    /\ nxt = [p \in ReplayCallers |-> NoSet]
    /\ changed = [p \in ReplayCallers |-> FALSE]
    /\ result = [p \in ReplayCallers |-> "none"]
    /\ pre = [p \in ReplayCallers |-> store]

\* The number of the store call a caller at place s is about to make.
StoreCallAt(s) ==
    CASE s = "idle" -> 1
      [] s = "read_next" -> 2
      [] s = "read_height" -> 3
      [] s = "set_height" -> 4
      [] s = "set_root" -> 5
      [] s = "set_current" -> 6
      [] s = "set_next" -> 7
      [] OTHER -> 0

\* The answer of the store to the call that caller p is about to make.
StoreAnswers(p) == store.fail # StoreCallAt(pc[p])

\* The call ingest_mmr_root_with_proof(u) up to Store::current_authority_set()
\* (lib.rs:44-45): call 1 with any update, call 2 with the update of call 1
\* once call 1 has returned and the store is as call 1 found it.
ReadCurrentReplay(p, ok) ==
    /\ pc[p] = "idle"
    /\ IF p = 1
       THEN \E u \in Updates : upd' = [upd EXCEPT ![p] = u]
       ELSE /\ pc[1] = "kept"
            /\ upd' = [upd EXCEPT ![p] = upd[1]]
    /\ pre' = [pre EXCEPT ![p] = store]
    /\ IF ok
       THEN /\ cur' = [cur EXCEPT ![p] = store.current]
            /\ pc' = [pc EXCEPT ![p] = "read_next"]
            /\ UNCHANGED result
       ELSE /\ Finish(p, "StorageReadError")
            /\ UNCHANGED cur
    /\ UNCHANGED <<store, nxt, changed>>

\* Call 1 has returned: what it returned and the store it left are kept
\* (pre[1] is from now on the store call 1 left), and the store is put back
\* as call 1 found it.
Rewind ==
    /\ pc[1] = "done"
    /\ pc[2] = "idle"
    /\ pc' = [pc EXCEPT ![1] = "kept"]
    /\ store' = pre[1]
    /\ pre' = [pre EXCEPT ![1] = store]
    /\ UNCHANGED <<upd, cur, nxt, changed, result>>

NextReplay ==
    \/ \E p \in ReplayCallers :
          \/ ReadCurrentReplay(p, StoreAnswers(p))
          \/ ReadNext(p, StoreAnswers(p))
          \/ ReadHeightBuilt(p, StoreAnswers(p), store.overflow_checks)
          \/ SetHeight(p, StoreAnswers(p))
          \/ SetRoot(p, StoreAnswers(p))
          \/ SetCurrent(p, StoreAnswers(p))
          \/ SetNext(p, StoreAnswers(p))
    \/ Rewind

SpecReplay == InitReplay /\ [][NextReplay]_vars

ForeignAddress(k) == MaxValidators + 1 + k

\* The signature list of an update as it recovers once the commitment has
\* changed: every slot that recovered to a validator now fails (the slots in
\* `failing`) or recovers to a foreign address.
Rebound(sigs) ==
    {[i \in 1 .. Len(sigs) |->
         IF sigs[i] >= 1
         THEN (IF i \in failing THEN BadSig ELSE ForeignAddress(sigs[i]))
         ELSE sigs[i]] : failing \in SUBSET SignerSlots(sigs)}

\* The signatures of the same length as `sig`.
SameLengthSigs(sig) ==
    IF SigLen(sig) = SIGNATURE_LEN
    THEN {BadSig} \cup (1 .. ForeignAddress(1))
    ELSE {ShortSig, ShortSigFlipped}

RootValues == {BogusNode} \cup {ChainRoot(s) : s \in LeafSets}

ProofNodeValues ==
    {BogusNode, LeftPeak} \cup {LeafHash(k) : k \in 1 .. (MaxValidators + 1)}

\* The updates that differ from u in one field of the commitment.
CommitmentChanges(u) ==
    {[u EXCEPT !.block_number = b, !.signatures = s] :
        b \in (0 .. (MaxHeight + 1)) \ {u.block_number},
        s \in Rebound(u.signatures)}
    \cup
    {[u EXCEPT !.validator_set_id = v, !.signatures = s] :
        v \in (0 .. MaxId) \ {u.validator_set_id},
        s \in Rebound(u.signatures)}

\* The updates that differ from u in the value of the payload's "mh" entry.
MmrRootChanges(u) ==
    IF ~HasMh(u) THEN {}
    ELSE LET n == Min({m \in 1 .. Len(u.payload) : u.payload[m].id = "mh"})
         IN {[u EXCEPT !.payload[n].val = r, !.signatures = s] :
                r \in RootValues \ {u.payload[n].val},
                s \in Rebound(u.signatures)}

\* The updates that differ from u in one signature.
SignatureChanges(u) ==
    UNION {{[u EXCEPT !.signatures[i] = x] :
                x \in SameLengthSigs(u.signatures[i]) \ {u.signatures[i]}} :
              i \in {j \in 1 .. Len(u.signatures) : u.signatures[j] # NoSig}}

\* The updates that differ from u in one node of the authority proof.
AuthorityProofChanges(u) ==
    UNION {{[u EXCEPT !.authority_proof[n] = x] :
                x \in ProofNodeValues \ {u.authority_proof[n]}} :
              n \in 1 .. Len(u.authority_proof)}

\* The updates that differ from u in one item of the MMR proof.
MmrProofChanges(u) ==
    UNION {{[u EXCEPT !.mmr_proof[n] = x] :
                x \in ProofNodeValues \ {u.mmr_proof[n]}} :
              n \in 1 .. Len(u.mmr_proof)}

SingleChanges(u) ==
    CommitmentChanges(u) \cup MmrRootChanges(u) \cup SignatureChanges(u)
        \cup AuthorityProofChanges(u) \cup MmrProofChanges(u)

\* C19: when a call returns Ok, every update that differs from the accepted
\* one in a single element (a field of the commitment, one signature, the "mh"
\* root, one authority-proof node, one MMR-proof item) is rejected with an
\* error in the store the call started from.
C19_AnySingleChangeRejected ==
    \A p \in Callers :
        Returned(p, "Ok") =>
            \A v \in SingleChanges(upd[p]), overflow_checks \in BOOLEAN :
                ingest_mmr_root_with_proof(v, pre[p], 0, overflow_checks).result
                    # "Ok"

\* ----------------------------------------------------------- initialise
\* The store of a client in the state Uninitialised: no MmrState and no
\* authority sets.
Uninitialised == [height |-> 0, root |-> NoHash, current |-> NoSet, next |-> NoSet]

\* An MmrState is present.
Initialised(st) == st # Uninitialised

\* The arguments of initialise: an AuthoritySet (traits.rs) and the
\* activation block.
InitialSets ==
    {[current_authorities |-> AuthoritySetOf(0, BigList),
      next_authorities |-> AuthoritySetOf(1, l)] : l \in ValidatorLists}

ActivationBlocks == 1 .. MaxHeight

InitInit ==
    /\ store = Uninitialised
    /\ pc = [p \in Callers |-> "idle"]
    /\ upd = [p \in Callers |-> NoUpdate]
    /\ cur = [p \in Callers |-> NoSet]
    /\ nxt = [p \in Callers |-> NoSet]
    /\ changed = [p \in Callers |-> FALSE]
    /\ result = [p \in Callers |-> "none"]
    /\ pre = [p \in Callers |-> store]

\* initialise that stores its arguments also over a present MmrState.
Initialise_Overwrites(p, set, activation_block) ==
    /\ pc[p] = "idle"
    /\ pre' = [pre EXCEPT ![p] = store]
    /\ upd' = [upd EXCEPT ![p] = [NoUpdate EXCEPT !.block_number = activation_block]]
    /\ cur' = [cur EXCEPT ![p] = set.current_authorities]
    /\ nxt' = [nxt EXCEPT ![p] = set.next_authorities]
    /\ store' = [height |-> activation_block - 1, root |-> NoHash,
                 current |-> set.current_authorities,
                 next |-> set.next_authorities]
    /\ Finish(p, "Ok")
    /\ UNCHANGED changed

\* initialise(set, activation_block): AlreadyInitialised when an MmrState is
\* present; otherwise latest_beefy_height = activation_block - 1 and both
\* authority sets are stored.  The caller keeps its arguments in upd
\* (block_number), cur and nxt until it returns.
Initialise(p, set, activation_block) ==
    /\ pc[p] = "idle"
    /\ pre' = [pre EXCEPT ![p] = store]
    /\ upd' = [upd EXCEPT ![p] = [NoUpdate EXCEPT !.block_number = activation_block]]
    /\ cur' = [cur EXCEPT ![p] = set.current_authorities]
    /\ nxt' = [nxt EXCEPT ![p] = set.next_authorities]
    /\ IF Initialised(store)
       THEN /\ Finish(p, "AlreadyInitialised")
            /\ UNCHANGED store
       ELSE /\ store' = [height |-> activation_block - 1, root |-> NoHash,
                         current |-> set.current_authorities,
                         next |-> set.next_authorities]
            /\ Finish(p, "Ok")
    /\ UNCHANGED changed

\* A client that is initialised and then ingests: every read of a store
\* without MmrState and authority sets fails.
NextInit ==
    \E p \in Callers :
        \/ \E set \in InitialSets, a \in ActivationBlocks : Initialise(p, set, a)
        \/ \E ok \in BOOLEAN :
              (Initialised(store) \/ ~ok) /\ ReadCurrentConcurrent(p, ok)
        \/ \E ok \in BOOLEAN : ReadNext(p, ok)
        \/ \E ok \in BOOLEAN : ReadHeight(p, ok)
        \/ \E ok \in BOOLEAN : SetHeight(p, ok)
        \/ \E ok \in BOOLEAN : SetRoot(p, ok)
        \/ \E ok \in BOOLEAN : SetCurrent(p, ok)
        \/ \E ok \in BOOLEAN : SetNext(p, ok)
        \/ Return(p)

SpecInit == InitInit /\ [][NextInit]_vars

\* The step is the whole of a call of initialise by p.
InitialiseStep(p) ==
    /\ pc[p] = "idle" /\ pc'[p] = "done"
    /\ result'[p] \in {"Ok", "AlreadyInitialised"}

\* The step is one of the four writes of an ingest of p.
IngestWrite(p) ==
    /\ pc[p] \in {"set_height", "set_root", "set_current", "set_next"}
    /\ upd'[p] = upd[p]

\* C20: a call of initialise on an uninitialised client returns Ok and stores
\* latest_beefy_height = activation_block - 1 and both authority sets of its
\* argument; a call on a client whose MmrState is present returns
\* AlreadyInitialised and leaves the store as it is; every step that changes
\* the store is a call of initialise or a write of an ingest.
C20_Initialise ==
    [][/\ \A p \in Callers :
            InitialiseStep(p) =>
                IF Initialised(store)
                THEN result'[p] = "AlreadyInitialised" /\ store' = store
                ELSE /\ result'[p] = "Ok"
                     /\ store'.height = upd'[p].block_number - 1
                     /\ store'.current = cur'[p]
                     /\ store'.next = nxt'[p]
                     /\ Initialised(store')
       /\ store' # store =>
            \E p \in Callers : InitialiseStep(p) \/ IngestWrite(p)]_vars

\* A second initialise, with other arguments, refused after the first one and
\* an ingest: the store still holds what the ingest left.
C20_Witness ==
    \E p \in Callers :
        /\ Returned(p, "AlreadyInitialised")
        /\ store = pre[p]
        /\ Initialised(store)
        /\ store.height > 0
        /\ store.root # NoHash
        /\ store.height # upd[p].block_number - 1
        /\ store.next # nxt[p]

\* ------------------------------------------------- authority_threshold, u32
\* One call of authority_threshold on a set whose len is any of these u32
\* values: the halves are taken around 0, 2^16 / 3, 2^15, 2^17 / 3 and 2^16.
HalfSamples ==
    {0, 1, 2, 3, 21845, 21846, 32767, 32768, 43690, 43691, 65534, 65535}

ThresholdInputs == {[hi |-> h, lo |-> l] : h \in HalfSamples, l \in HalfSamples}

\* The len of the next authority set and the numbers of signature slots with
\* which the gate of lib.rs:50-55 is called.
NextLens == {IntToU32(1), IntToU32(3), [hi |-> 32768, lo |-> 0]}

SignatureCounts == {1, 2, 3}

InitThreshold ==
    /\ store = Uninitialised
    /\ pc = [p \in Callers |-> "idle"]
    /\ upd \in {[p \in Callers |-> [len |-> x, next_len |-> o, signatures_len |-> n]] :
                   x \in ThresholdInputs, o \in NextLens, n \in SignatureCounts}
    /\ cur = [p \in Callers |-> NoSet]
    /\ nxt = [p \in Callers |-> NoSet]
    /\ changed = [p \in Callers |-> FALSE]
    /\ result = [p \in Callers |-> "none"]
    /\ pre = [p \in Callers |-> store]

\* authority_threshold(&set) with set.len = upd[p].len.
CallAuthorityThreshold(p) ==
    /\ pc[p] = "idle"
    /\ \E r \in authority_threshold_outcomes(upd[p].len) : Finish(p, r)
    /\ UNCHANGED <<store, upd, cur, nxt, changed, pre>>

\* The gate of lib.rs:50-55 for a stored current set of len upd[p].len, a
\* stored next set of len upd[p].next_len and an update of
\* upd[p].signatures_len signature slots.
CallThresholdGate(p, overflow_checks) ==
    /\ pc[p] = "idle"
    /\ pc' = [pc EXCEPT ![p] = "gated"]
    /\ result' = [result EXCEPT ![p] =
          threshold_gate(upd[p].len, upd[p].next_len, upd[p].signatures_len,
                         overflow_checks)]
    /\ UNCHANGED <<store, upd, cur, nxt, changed, pre>>

NextThreshold ==
    \E p \in Callers :
        \/ CallAuthorityThreshold(p)
        \/ \E overflow_checks \in BOOLEAN : CallThresholdGate(p, overflow_checks)

SpecThreshold == InitThreshold /\ [][NextThreshold]_vars

\* floor(2 * len / 3) + 1 over the integers, by long division of the three
\* 16-bit digits of 2 * len; the value fits in 32 bits for every u32 len.
ExactThreshold(len) ==
    LET lo2 == 2 * len.lo
        mid == 2 * len.hi + (lo2 \div U32Half)
        d2 == mid \div U32Half
        d1 == mid % U32Half
        d0 == lo2 % U32Half
        q1 == (d2 * U32Half + d1) \div 3
        r1 == (d2 * U32Half + d1) % 3
        q0 == (r1 * U32Half + d0) \div 3
    IN Add1U32([hi |-> q1, lo |-> q0])

\* C21: authority_threshold returns floor(2 * len / 3) + 1 for every u32 len,
\* also where 2 * len does not fit in 32 bits.
C21_ThresholdExact ==
    \A p \in Callers :
        pc[p] = "done" =>
            result[p] = [panicked |-> FALSE, value |-> ExactThreshold(upd[p].len)]

\* n is below floor(2 * len / 3) + 1 for the current and for the next set.
BelowBothThresholds(p) ==
    /\ upd[p].signatures_len < U32ToInt(ExactThreshold(upd[p].len))
    /\ upd[p].signatures_len < U32ToInt(ExactThreshold(upd[p].next_len))

\* C7: with n the number of signature slots, the gate of the thresholds fails
\* with InvalidMmrUpdate exactly when n < floor(2 * current.len / 3) + 1 and
\* n < floor(2 * next.len / 3) + 1; a gate that does not fail that way passes.
C7_GateExactlyBelowBoth ==
    \A p \in Callers :
        pc[p] = "gated" =>
            /\ result[p] \in {"InvalidMmrUpdate", "pass"}
            /\ result[p] = "InvalidMmrUpdate" <=> BelowBothThresholds(p)

\* The gate does what C7 says of it whenever 2 * len fits in 32 bits for both
\* sets: it leaves the statement only through the product of lib.rs:200.
GateExactWithoutOverflow ==
    \A p \in Callers :
        (/\ pc[p] = "gated"
         /\ ~Mul2U32(upd[p].len).overflow
         /\ ~Mul2U32(upd[p].next_len).overflow) =>
            /\ result[p] \in {"InvalidMmrUpdate", "pass"}
            /\ result[p] = "InvalidMmrUpdate" <=> BelowBothThresholds(p)

\* The positions at which a caller is about to make a write.
WritePositions == {"set_height", "set_root", "set_current", "set_next"}

\* C22: a call that returns an error other than a storage write error has
\* made no write: the store changes only in a step made at a write position,
\* the write positions are passed in the order height, MMR root, current set,
\* next set, the first of them is entered by the step that passes the last
\* check, the two authority-set writes are entered only when a rotation was
\* selected, and a call never leaves a write position with the error of a
\* check or of a read.
C22_WritesAfterChecks ==
    [][\A p \in Callers :
          /\ store' # store => \E q \in Callers : pc[q] \in WritePositions
          /\ (pc'[p] # pc[p] /\ pc'[p] = "set_height") => pc[p] = "read_height"
          /\ (pc'[p] # pc[p] /\ pc'[p] = "set_root") => pc[p] = "set_height"
          /\ (pc'[p] # pc[p] /\ pc'[p] = "set_current") =>
                (pc[p] = "set_root" /\ changed[p])
          /\ (pc'[p] # pc[p] /\ pc'[p] = "set_next") => pc[p] = "set_current"
          /\ (pc[p] = "set_root" /\ pc'[p] = "done" /\ result'[p] = "Ok") =>
                ~changed[p]
          /\ (pc[p] # "done" /\ pc'[p] = "done"
                  /\ result'[p] \notin {"Ok", "StorageWriteError"}) =>
                /\ pc[p] \notin WritePositions
                /\ store' = store
                /\ store' = pre'[p]]_vars

\* The last check fails in an update that selected a rotation, after an
\* earlier ingest: nothing was written.
C22_Witness ==
    \E p \in Callers :
        /\ Returned(p, "InvalidMmrProof")
        /\ changed[p]
        /\ upd[p].validator_set_id = pre[p].next.id
        /\ pre[p].height > 0
        /\ store = pre[p]

\* C23: with ingests made one at a time, whenever no call is in progress the
\* stored height and MMR root come from one accepted commitment: a call that
\* changed the height left the "mh" value of its own commitment as the root,
\* and a call that did not change the height did not change the root.
C23_HeightRootPair ==
    \A p \in Callers :
        pc[p] \in {"idle", "done"} =>
            IF store.height = pre[p].height
            THEN store.root = pre[p].root
            ELSE /\ store.height = upd[p].block_number
                 /\ store.root = MmrRootHashOf(upd[p])

\* C24: when a call returns Ok, the number of signature positions of its
\* update is at least floor(2 * len / 3) + 1 for the set that its
\* validator_set_id selects.
C24_LengthMeetsActiveThreshold ==
    \A p \in Callers :
        Returned(p, "Ok") =>
            Len(upd[p].signatures) >= Threshold(ActiveSet(upd[p], pre[p]).len)

\* --------------------------------------------- a chain of rotating ingests
\* Well-formed updates of a chain that runs one block further than the ingest
\* model: signed by every validator of the committee that has the update's
\* validator_set_id, announcing any of the leaf sets.
ChainUpdates ==
    {[block_number |-> b, validator_set_id |-> v,
      payload |-> <<MhEntry(HASH_LENGTH, ChainRoot(s))>>,
      signatures |-> ListOfId(v), authority_proof |-> <<>>,
      leaf_index |-> 1, leaf_set |-> s, mmr_proof |-> <<LeftPeak>>] :
        b \in 1 .. (MaxHeight + 1), v \in 0 .. MaxId, s \in LeafSets}

\* The call ingest_mmr_root_with_proof(u) up to Store::current_authority_set()
\* (lib.rs:44-45) for an update of the chain; one call at a time.
ReadCurrentChain(p, ok) ==
    /\ pc[p] = "idle"
    /\ \E u \in ChainUpdates : upd' = [upd EXCEPT ![p] = u]
    /\ pre' = [pre EXCEPT ![p] = store]
    /\ IF ok
       THEN /\ cur' = [cur EXCEPT ![p] = store.current]
            /\ pc' = [pc EXCEPT ![p] = "read_next"]
            /\ UNCHANGED result
       ELSE /\ Finish(p, "StorageReadError")
            /\ UNCHANGED cur
    /\ UNCHANGED <<store, nxt, changed>>

NextChain ==
    \E p \in Callers :
        \/ \E ok \in BOOLEAN : ReadCurrentChain(p, ok)
        \/ \E ok \in BOOLEAN : ReadNext(p, ok)
        \/ \E ok \in BOOLEAN : ReadHeight(p, ok)
        \/ \E ok \in BOOLEAN : SetHeight(p, ok)
        \/ \E ok \in BOOLEAN : SetRoot(p, ok)
        \/ \E ok \in BOOLEAN : SetCurrent(p, ok)
        \/ \E ok \in BOOLEAN : SetNext(p, ok)
        \/ Return(p)

SpecChain == Init /\ [][NextChain]_vars

\* C25: the id of the stored current authority set never decreases, and it
\* changes only in a step of an ingest whose validator_set_id is the id of the
\* next set that was stored when the call was made.
C25_CurrentIdMonotone ==
    [][/\ store'.current.id >= store.current.id
       /\ store'.current.id # store.current.id =>
             \E p \in Callers :
                /\ pc[p] = "set_current"
                /\ upd[p].validator_set_id = pre[p].next.id]_vars

\* ------------- relayer: ParachainClient::query_latest_ibc_events (beefy)
\* In this part `store` is the client state the counterparty holds of this
\* chain, `upd` the finality event and what the chain answers to the call's
\* queries, `pre` the locals of the call and the log of its external calls;
\* `result` is the error of the call, "Ok" or "Panic".

\* refresh_period of is_update_required (provider.rs:860)
RefreshPeriod == 50
RefreshPeriodTesting == 15

\* A u64 height is written as its four 16-bit limbs, the most significant
\* first: the revision_height of the counterparty's client state and the
\* maximum height for timeout proofs are u64 (provider.rs:332, 344-347, 360,
\* 393). U64(hi, lo) is the height hi * 2^32 + lo.
U64(hi, lo) ==
    <<hi \div U32Half, hi % U32Half, lo \div U32Half, lo % U32Half>>

\* u64::MAX = 2^64 - 1
MaxU64 == <<U32Half - 1, U32Half - 1, U32Half - 1, U32Half - 1>>

\* The two 16-bit limbs of a u32 block number, and the number of two limbs.
U32Limbs(n) == <<n \div U32Half, n % U32Half>>
U32Value(w) == w[1] * U32Half + w[2]

\* `h as u32` (provider.rs:332, 347, 394): the two low limbs.
AsU32(h) == <<h[3], h[4]>>

\* u64::from of a u32 block number (provider.rs:359 `.into()`).
FromU32(n) == <<0, 0>> \o U32Limbs(n)

\* a < b of two numbers of as many limbs (provider.rs:332, 393)
LessLimbs(a, b) ==
    \E i \in 1 .. Len(a) : a[i] < b[i] /\ \A j \in 1 .. (i - 1) : a[j] = b[j]

LessU64(a, b) == LessLimbs(a, b)

\* a - b modulo 2^64, limb by limb from the least significant with a borrow
\* (provider.rs:861 in a build without overflow checks).
RECURSIVE SubLimbs(_, _, _)
SubLimbs(a, b, borrow) ==
    IF a = <<>> THEN <<>>
    ELSE LET n == Len(a)
             d == a[n] - b[n] - borrow
         IN Append(SubLimbs(SubSeq(a, 1, n - 1), SubSeq(b, 1, n - 1),
                            IF d < 0 THEN 1 ELSE 0),
                   (d + U32Half) % U32Half)

WrappingSubU64(a, b) == SubLimbs(a, b, 0)

\* Option::None of max_height_for_timeouts (provider.rs:344-351)
NoHeight == <<>>

\* Parachain block numbers of the model (u32, provider.rs:327), heights of the
\* counterparty's client and maximum heights for timeout proofs, of which
\* some are 2^32 and above, up to u64::MAX.
RelayHeights == {1, 2, 16, 17, 52}
ClientHeights ==
    {U64(0, 0), U64(0, 2), U64(0, 17), U64(1, 0), U64(1, 17), MaxU64}
TimeoutHeights == {NoHeight, U64(0, 2), U64(0, 17), U64(1, 16), U64(2, 17)}
FinalizedSets == {F \in SUBSET RelayHeights : Cardinality(F) <= 2}

\* The counterparty's client state: the ids of its authority sets (the next
\* id follows the current one, or repeats it) and its latest height.
RelayClientStates ==
    {[current_authorities |-> [id |-> c],
      next_authorities |-> [id |-> n],
      latest_height |-> h] :
        c \in 0 .. MaxId, n \in 0 .. (MaxId + 1), h \in ClientHeights}

RelayStores == {cs \in RelayClientStates :
                  cs.next_authorities.id \in
                      {cs.current_authorities.id, cs.current_authorities.id + 1}}

\* A finality event with the answers of the chain: the finalized parachain
\* headers, the maximum height for timeout proofs, and the build's feature.
RelayInputs ==
    {[validator_set_id |-> v, finalized |-> F, max_height_for_timeouts |-> m,
      testing |-> t] :
        v \in 0 .. (MaxId + 1), F \in FinalizedSets, m \in TimeoutHeights,
        t \in BOOLEAN}

\* What the counterparty answers to query_client_state (provider.rs:270-289).
ClientStateResponses == {"error", "empty", "undecodable", "grandpa", "beefy"}

NoRelayInput ==
    [validator_set_id |-> 0, finalized |-> {},
     max_height_for_timeouts |-> NoHeight, testing |-> FALSE]

NoFrame ==
    [calls |-> <<>>, client_state |-> "none",
     finalized_blocks |-> {}, finalized_block_numbers |-> {},
     timeout_update_required |-> FALSE, latest_finalized_block |-> 0,
     authority_set_changed |-> FALSE, is_update_required |-> FALSE,
     update_type |-> "none", events |-> <<>>, headers_with_events |-> {},
     headers_with_proof |-> "none", proved_headers |-> {},
     mmr_update_proof |-> "none", sent |-> <<>>, message |-> "none"]

\* A key of the events map is a string, written as the sequence of its
\* characters: a decimal digit is its value, and there are the sign '+' and a
\* character that is neither (provider.rs:370-385).
PlusSign == 10
OtherChar == 11

\* u32 to its decimal string (the node serialises the header number).
RECURSIVE ToDecimal(_)
ToDecimal(n) == IF n < 10 THEN <<n>> ELSE Append(ToDecimal(n \div 10), n % 10)

\* None of str::parse::<u32>(..).ok() (provider.rs:384)
NoParse == -1

\* The decimal digits of u32::MAX = 4294967295
U32MaxDigits == <<4, 2, 9, 4, 9, 6, 7, 2, 9, 5>>

RECURSIVE StripZeros(_)
StripZeros(s) == IF Len(s) > 1 /\ s[1] = 0 THEN StripZeros(Tail(s)) ELSE s

\* s <= t for two digit sequences of one length
RECURSIVE DigitsLeq(_, _)
DigitsLeq(s, t) ==
    IF s = <<>> THEN TRUE
    ELSE IF s[1] # t[1] THEN s[1] < t[1]
    ELSE DigitsLeq(Tail(s), Tail(t))

RECURSIVE DigitsValue(_)
DigitsValue(s) ==
    IF s = <<>> THEN 0
    ELSE 10 * DigitsValue(SubSeq(s, 1, Len(s) - 1)) + s[Len(s)]

\* str::parse::<u32>(num).ok() (provider.rs:384): an optional '+' and one or
\* more decimal digits of a value up to u32::MAX; anything else is None.
ParseU32(s) ==
    LET digits == IF s # <<>> /\ s[1] = PlusSign THEN Tail(s) ELSE s
        d == StripZeros(digits)
    IN IF digits = <<>> \/ \E i \in 1 .. Len(digits) : digits[i] \notin 0 .. 9
       THEN NoParse
       ELSE IF Len(d) > Len(U32MaxDigits)
               \/ (Len(d) = Len(U32MaxDigits) /\ ~DigitsLeq(d, U32MaxDigits))
       THEN NoParse
       ELSE DigitsValue(d)

MaxOf(S) == CHOOSE x \in S : \A y \in S : y <= x

\* provider.rs:291: the commitment is older than the client's current set.
Outdated_Never(validator_set_id, client_state) == FALSE

Outdated(validator_set_id, client_state) ==
    validator_set_id < client_state.current_authorities.id

\* provider.rs:329-339: the finalized blocks above the client's latest height
\* cast to u32.
FinalizedBlockNumbers(finalized_blocks, client_state) ==
    {b \in finalized_blocks :
        LessLimbs(AsU32(client_state.latest_height), U32Limbs(b))}

\* provider.rs:346-351: the maximum height cast to u32 is a finalized block.
TimeoutUpdateRequired(max_height, finalized_blocks) ==
    IF max_height # NoHeight
    THEN \E b \in finalized_blocks : U32Limbs(b) = AsU32(max_height)
    ELSE FALSE

\* provider.rs:353: max().unwrap_or_default()
LatestFinalizedBlock(finalized_blocks) ==
    IF finalized_blocks = {} THEN 0 ELSE MaxOf(finalized_blocks)

\* provider.rs:855-862. The difference of the two u64 is below zero when the
\* client is ahead: a build with overflow checks panics there, a build
\* without them compares the wrapped difference with the period.
is_update_required(latest_height, latest_client_height_on_counterparty, testing) ==
    LET refresh_period == IF testing THEN RefreshPeriodTesting ELSE RefreshPeriod
        difference == WrappingSubU64(latest_height,
                                     latest_client_height_on_counterparty)
        value == ~LessU64(difference, FromU32(refresh_period))
    IN IF LessU64(latest_height, latest_client_height_on_counterparty)
       THEN {[panicked |-> TRUE, value |-> FALSE],
             [panicked |-> FALSE, value |-> value]}
       ELSE {[panicked |-> FALSE, value |-> value]}

\* provider.rs:364-368
UpdateTypeOf(authority_set_changed, timeout_update_required, required) ==
    IF authority_set_changed \/ timeout_update_required \/ required
    THEN "Mandatory" ELSE "Optional"

\* Keys of the events map that are not the number of a block.
JunkKeys == {<<>>, <<4, 2, 9, 4, 9, 6, 7, 2, 9, 6>>, <<OtherChar>>}

\* The answer of the events RPC (provider.rs:370-375), a map from a string to
\* the events under it: for each requested block its decimal number, those of
\* with_events having one event each, and the keys of junk with one event
\* each. An event is named by the key it came under.
EventsResponse(requested, with_events, junk) ==
    {[num |-> ToDecimal(n),
      events |-> IF n \in with_events THEN <<ToDecimal(n)>> ELSE <<>>] :
          n \in requested}
        \cup {[num |-> k, events |-> <<k>>] : k \in junk}

\* provider.rs:378-401: the headers of which a proof is wanted. A key that
\* does not parse is dropped; the timeout height is compared as u64 and
\* inserted cast to u32.
HeadersWithEvents(response, timeout_update_required, max_height, required, latest_finalized_block, client_state) ==
    ({ParseU32(e.num) : e \in {x \in response : x.events # <<>>}} \ {NoParse})
        \cup (IF timeout_update_required
                 /\ LessU64(client_state.latest_height, max_height)
              THEN {U32Value(AsU32(max_height))} ELSE {})
        \cup (IF required THEN {latest_finalized_block} ELSE {})

\* The orders in which a HashMap hands out the events (provider.rs:389).
EventOrders(response) ==
    LET evs == {e.events[1] : e \in {x \in response : x.events # <<>>}}
    IN {s \in [1 .. Cardinality(evs) -> evs] :
           \A i, j \in 1 .. Cardinality(evs) : i # j => s[i] # s[j]}

InitRelay ==
    /\ store \in RelayStores
    /\ pc = [p \in Callers |-> "idle"]
    /\ upd = [p \in Callers |-> NoRelayInput]
    /\ cur = [p \in Callers |-> NoSet]
    /\ nxt = [p \in Callers |-> NoSet]
    /\ changed = [p \in Callers |-> FALSE]
    /\ result = [p \in Callers |-> "none"]
    /\ pre = [p \in Callers |-> NoFrame]

Called(p, names) ==
    pre' = [pre EXCEPT ![p] = [@ EXCEPT !.calls = @ \o names]]

\* provider.rs:269-270: the call is made with a finality event and awaits the
\* counterparty's latest height. `store` is the client state the counterparty
\* holds at that height, which is what line 271 asks for.
QueryLatestHeight(p, ok) ==
    /\ pc[p] = "idle"
    /\ \E u \in RelayInputs : upd' = [upd EXCEPT ![p] = u]
    /\ Called(p, <<"latest_height_and_timestamp">>)
    /\ IF ok
       THEN /\ pc' = [pc EXCEPT ![p] = "client_state"]
            /\ UNCHANGED result
       ELSE Finish(p, "RpcError")
    /\ UNCHANGED <<store, cur, nxt, changed>>

\* provider.rs:271-305: the client state is read from the counterparty and the
\* commitment is compared with its current authority set.
QueryClientState(p, response) ==
    /\ pc[p] = "client_state"
    /\ IF response = "error"
       THEN /\ Called(p, <<"query_client_state">>)
            /\ Finish(p, "RpcError")
       ELSE /\ pre' = [pre EXCEPT ![p] =
                  [@ EXCEPT !.calls = Append(@, "query_client_state"),
                            !.client_state = response]]
            /\ IF response \in {"empty", "undecodable"}
               THEN Finish(p, "Custom")
               ELSE IF response = "grandpa"
               THEN Finish(p, "ClientStateRehydration")
               ELSE IF Outdated(upd[p].validator_set_id, store)
               THEN Finish(p, "HeaderConstruction")
               ELSE /\ pc' = [pc EXCEPT ![p] = "headers"]
                    /\ UNCHANGED result
    /\ UNCHANGED <<store, upd, cur, nxt, changed>>

\* provider.rs:307-339: the finalized headers are fetched; the log line reads
\* headers[0], which panics for an empty list when the info level is logged.
QueryFinalizedHeaders(p, ok, log_info) ==
    /\ pc[p] = "headers"
    /\ IF ~ok
       THEN /\ Called(p, <<"query_finalized_parachain_headers_at">>)
            /\ Finish(p, "RpcError")
       ELSE IF log_info /\ upd[p].finalized = {}
       THEN /\ Called(p, <<"query_finalized_parachain_headers_at">>)
            /\ Finish(p, "Panic")
       ELSE /\ pre' = [pre EXCEPT ![p] =
                  [@ EXCEPT !.calls = Append(@, "query_finalized_parachain_headers_at"),
                            !.finalized_blocks = upd[p].finalized,
                            !.finalized_block_numbers =
                                FinalizedBlockNumbers(upd[p].finalized, store)]]
            /\ pc' = [pc EXCEPT ![p] = "timeouts"]
            /\ UNCHANGED result
    /\ UNCHANGED <<store, upd, cur, nxt, changed>>

\* provider.rs:341-368: the type of the update.
FindTimeouts(p) ==
    /\ pc[p] = "timeouts"
    /\ LET f == pre[p]
           timeout == TimeoutUpdateRequired(upd[p].max_height_for_timeouts,
                                            f.finalized_blocks)
           latest == LatestFinalizedBlock(f.finalized_blocks)
           set_changed == upd[p].validator_set_id = store.next_authorities.id
       IN \E r \in is_update_required(FromU32(latest), store.latest_height,
                                      upd[p].testing) :
             /\ pre' = [pre EXCEPT ![p] =
                   [@ EXCEPT !.calls = Append(@, "find_maximum_height_for_timeout_proofs"),
                             !.timeout_update_required = timeout,
                             !.latest_finalized_block = latest,
                             !.authority_set_changed = set_changed,
                             !.is_update_required = r.value,
                             !.update_type =
                                 IF r.panicked THEN "none"
                                 ELSE UpdateTypeOf(set_changed, timeout, r.value)]]
             /\ IF r.panicked
                THEN Finish(p, "Panic")
                ELSE /\ pc' = [pc EXCEPT ![p] = "events"]
                     /\ UNCHANGED result
    /\ UNCHANGED <<store, upd, cur, nxt, changed>>

\* provider.rs:370-401: the events of the finalized blocks above the client's
\* height, and the headers of which a proof is wanted.
QueryEvents(p, ok) ==
    /\ pc[p] = "events"
    /\ IF ~ok
       THEN /\ Called(p, <<"query_events">>)
            /\ Finish(p, "RpcError")
       ELSE \E with_events \in SUBSET pre[p].finalized_block_numbers,
               junk \in {J \in SUBSET JunkKeys : Cardinality(J) <= 1} :
               LET f == pre[p]
                   response == EventsResponse(f.finalized_block_numbers,
                                              with_events, junk)
               IN \E order \in EventOrders(response) :
                     /\ pre' = [pre EXCEPT ![p] =
                           [@ EXCEPT !.calls = Append(@, "query_events"),
                                     !.events = order,
                                     !.headers_with_events =
                                         HeadersWithEvents(response,
                                             f.timeout_update_required,
                                             upd[p].max_height_for_timeouts,
                                             f.is_update_required,
                                             f.latest_finalized_block, store)]]
                     /\ pc' = [pc EXCEPT ![p] = "proofs"]
                     /\ UNCHANGED result
    /\ UNCHANGED <<store, upd, cur, nxt, changed>>

\* provider.rs:403-421: the header proofs, queried for a non-empty set only.
QueryHeaderProofs(p, ok) ==
    /\ pc[p] = "proofs"
    /\ IF pre[p].headers_with_events # {}
       THEN IF ok
            THEN /\ pre' = [pre EXCEPT ![p] =
                       [@ EXCEPT !.calls = Append(@,
                                     "query_beefy_finalized_parachain_headers_with_proof"),
                                 !.headers_with_proof = "Some",
                                 !.proved_headers = pre[p].headers_with_events]]
                 /\ pc' = [pc EXCEPT ![p] = "mmr"]
                 /\ UNCHANGED result
            ELSE /\ Called(p, <<"query_beefy_finalized_parachain_headers_with_proof">>)
                 /\ Finish(p, "RpcError")
       ELSE /\ ok
            /\ pre' = [pre EXCEPT ![p] = [@ EXCEPT !.headers_with_proof = "None"]]
            /\ pc' = [pc EXCEPT ![p] = "mmr"]
            /\ UNCHANGED result
    /\ UNCHANGED <<store, upd, cur, nxt, changed>>

\* provider.rs:423-425: the MMR update proof and the header.
FetchMmrUpdate(p, ok) ==
    /\ pc[p] = "mmr"
    /\ IF ok
       THEN /\ pre' = [pre EXCEPT ![p] =
                  [@ EXCEPT !.calls = Append(@, "fetch_mmr_update_proof_for"),
                            !.mmr_update_proof = "Some"]]
            /\ pc' = [pc EXCEPT ![p] = "send"]
            /\ UNCHANGED result
       ELSE /\ Called(p, <<"fetch_mmr_update_proof_for">>)
            /\ Finish(p, "RpcError")
    /\ UNCHANGED <<store, upd, cur, nxt, changed>>

\* provider.rs:427-444: the events are sent until a send finds no receiver,
\* the update message is built and returned.
SendEvents(p, delivered) ==
    /\ pc[p] = "send"
    /\ delivered \in 0 .. Len(pre[p].events)
    /\ pre' = [pre EXCEPT ![p] =
          [@ EXCEPT !.sent = SubSeq(pre[p].events, 1, delivered),
                    !.message = "MsgUpdateAnyClient"]]
    /\ Finish(p, "Ok")
    /\ UNCHANGED <<store, upd, cur, nxt, changed>>

NextRelay ==
    \E p \in Callers :
        \/ \E ok \in BOOLEAN : QueryLatestHeight(p, ok)
        \/ \E response \in ClientStateResponses : QueryClientState(p, response)
        \/ \E ok, log_info \in BOOLEAN : QueryFinalizedHeaders(p, ok, log_info)
        \/ FindTimeouts(p)
        \/ \E ok \in BOOLEAN : QueryEvents(p, ok)
        \/ \E ok \in BOOLEAN : QueryHeaderProofs(p, ok)
        \/ \E ok \in BOOLEAN : FetchMmrUpdate(p, ok)
        \/ \E delivered \in 0 .. (Cardinality(RelayHeights) + 1) :
              SendEvents(p, delivered)

SpecRelay == InitRelay /\ [][NextRelay]_vars

\* The external calls that fetch headers, events or proofs.
FetchCalls ==
    {"query_finalized_parachain_headers_at", "find_maximum_height_for_timeout_proofs",
     "query_events", "query_beefy_finalized_parachain_headers_with_proof",
     "fetch_mmr_update_proof_for"}

\* C26: when the client state was read and the commitment's validator_set_id
\* is below the id of the client's current authority set, the call returns
\* HeaderConstruction, having fetched no header, events or proof, sent no
\* event and built no update message.
C26_OutdatedSkipped ==
    \A p \in Callers :
        (/\ pre[p].client_state = "beefy"
         /\ upd[p].validator_set_id < store.current_authorities.id) =>
            /\ Returned(p, "HeaderConstruction")
            /\ pre[p].calls = <<"latest_height_and_timestamp", "query_client_state">>
            /\ \A i \in 1 .. Len(pre[p].calls) : pre[p].calls[i] \notin FetchCalls
            /\ pre[p].sent = <<>>
            /\ pre[p].message = "none"

C26_Witness ==
    \E p \in Callers :
        /\ Returned(p, "HeaderConstruction")
        /\ upd[p].validator_set_id < store.current_authorities.id
        /\ upd[p].finalized # {}

\* The values is_update_required may return for the call's inputs.
RequiredValues(p) ==
    {r.value : r \in {x \in is_update_required(
                                FromU32(LatestFinalizedBlock(upd[p].finalized)),
                                store.latest_height, upd[p].testing) :
                            ~x.panicked}}

\* The maximum height for timeout proofs is the number of a finalized block.
TimeoutAmongFinalized(p) ==
    /\ upd[p].max_height_for_timeouts # NoHeight
    /\ \E b \in upd[p].finalized : upd[p].max_height_for_timeouts = FromU32(b)

\* C27: a returned update is Mandatory exactly when the commitment's
\* validator_set_id is the id of the client's next authority set, or the
\* maximum height for timeout proofs is one of the finalized blocks, or
\* is_update_required returned true, and Optional otherwise; a commitment that
\* rotates the light client's sets (its id is next.id and not current.id) is
\* Mandatory.
C27_UpdateType ==
    \A p \in Callers :
        Returned(p, "Ok") =>
            /\ pre[p].update_type \in {"Mandatory", "Optional"}
            /\ pre[p].is_update_required \in RequiredValues(p)
            /\ pre[p].update_type = "Mandatory" <=>
                  \/ upd[p].validator_set_id = store.next_authorities.id
                  \/ TimeoutAmongFinalized(p)
                  \/ pre[p].is_update_required
            /\ (/\ upd[p].validator_set_id = store.next_authorities.id
                /\ upd[p].validator_set_id # store.current_authorities.id) =>
                   pre[p].update_type = "Mandatory"

\* The call has evaluated is_update_required (provider.rs:358-361).
UpdateRequiredCalled(p) ==
    \E i \in 1 .. Len(pre[p].calls) :
        pre[p].calls[i] = "find_maximum_height_for_timeout_proofs"

\* The u64 a is at least the period above the u64 b: a >= b and a - b >= period.
AtLeastAbove(a, b, period) ==
    /\ ~LessU64(a, b)
    /\ ~LessU64(WrappingSubU64(a, b), FromU32(period))

\* C28: is_update_required returns, without a panic, whether the latest
\* finalized block is at least refresh_period above the client's height; it
\* is false when the latest finalized block is below the client's height.
C28_UpdateRequiredExact ==
    \A p \in Callers :
        UpdateRequiredCalled(p) =>
            /\ result[p] # "Panic"
            /\ pre[p].is_update_required <=>
                  AtLeastAbove(FromU32(pre[p].latest_finalized_block),
                               store.latest_height,
                               IF upd[p].testing THEN RefreshPeriodTesting
                               ELSE RefreshPeriod)

\* The blocks of which the call collected an event.
BlocksWithEvents(p) ==
    {ParseU32(pre[p].events[i]) : i \in 1 .. Len(pre[p].events)} \ {NoParse}

\* The heights of which the claim wants a header proof.
WantedHeaders(p) ==
    {FromU32(b) : b \in {x \in upd[p].finalized :
                            /\ LessU64(store.latest_height, FromU32(x))
                            /\ x \in BlocksWithEvents(p)}}
        \cup (IF /\ TimeoutAmongFinalized(p)
                 /\ LessU64(store.latest_height, upd[p].max_height_for_timeouts)
              THEN {upd[p].max_height_for_timeouts} ELSE {})
        \cup (IF pre[p].is_update_required
              THEN {FromU32(LatestFinalizedBlock(upd[p].finalized))} ELSE {})

HeaderProofCalls(p) ==
    {i \in 1 .. Len(pre[p].calls) :
        pre[p].calls[i] = "query_beefy_finalized_parachain_headers_with_proof"}

\* C29: header proofs are requested for the finalized blocks above the
\* client's height that have an event, the maximum timeout height when a
\* timeout update is required and the height is above the client's, and the
\* latest finalized block when is_update_required returned true, and for no
\* other block; when there is no such block the proof query is not made and
\* the header has headers_with_proof = None; every returned header has the
\* MMR update proof.
C29_HeaderProofs ==
    \A p \in Callers :
        /\ BlocksWithEvents(p) \subseteq
               {b \in upd[p].finalized : LessU64(store.latest_height, FromU32(b))}
        /\ HeaderProofCalls(p) # {} =>
               /\ Cardinality(HeaderProofCalls(p)) = 1
               /\ {FromU32(h) : h \in pre[p].headers_with_events} = WantedHeaders(p)
               /\ WantedHeaders(p) # {}
        /\ Returned(p, "Ok") =>
               /\ pre[p].mmr_update_proof = "Some"
               /\ IF WantedHeaders(p) = {}
                  THEN /\ pre[p].headers_with_proof = "None"
                       /\ HeaderProofCalls(p) = {}
                  ELSE /\ pre[p].headers_with_proof = "Some"
                       /\ {FromU32(h) : h \in pre[p].proved_headers} = WantedHeaders(p)

\* --------------------- hyperspace core: the loops of relay and of fish
\* In this part there are two programs, of which a run starts one. `store` is
\* the two chains as the program sees them: the state of each finality stream
\* and the client-update events each chain is still to emit; `pre` holds the
\* locals of each program.
LoopProcs == {"relay", "fish"}
Chains == {"a", "b"}

\* The IBC events a chain emits while fish runs: "update" is an UpdateClient
\* of the counterparty's client, "other" any event that the filter_map of
\* lib.rs:80-93 drops.
EventStreams ==
    {<<>>, <<"update">>, <<"other">>, <<"other", "update">>,
     <<"update", "update">>, <<"update", "other">>}

\* Chain::client_type() of a chain (lib.rs:106, 119).
ClientTypes == {"07-tendermint", "10-grandpa"}

LoopStores ==
    {[finality |-> [c \in Chains |-> "none"], updates |-> u, ends |-> e,
      client_type |-> t] :
        u \in [Chains -> EventStreams], e \in [Chains -> BOOLEAN],
        t \in [Chains -> ClientTypes]}

NoRelayFrame == [chain |-> "none", item |-> "none"]
NoFishFrame ==
    [chain |-> "none", taken |-> <<>>, handled |-> <<>>,
     failed |-> FALSE, ended |-> FALSE, waited |-> "none"]

\* relay reads neither the client updates nor the client types.
QuietStores ==
    {s \in LoopStores :
        \A c \in Chains : /\ s.updates[c] = <<>>
                          /\ ~s.ends[c]
                          /\ s.client_type[c] = "10-grandpa"}

\* One of the two programs is started.
InitLoops ==
    /\ \/ /\ pc = [relay |-> "subscribe", fish |-> "off"]
          /\ store \in QuietStores
       \/ /\ pc = [relay |-> "off", fish |-> "subscribe"]
          /\ store \in LoopStores
    /\ upd = [p \in LoopProcs |-> "none"]
    /\ cur = [p \in LoopProcs |-> NoSet]
    /\ nxt = [p \in LoopProcs |-> NoSet]
    /\ changed = [p \in LoopProcs |-> FALSE]
    /\ result = [p \in LoopProcs |-> "none"]
    /\ pre = [relay |-> NoRelayFrame, fish |-> NoFishFrame]

\* relay holds the finality stream of chain c (lib.rs:53-54): the stream of
\* chain A from the first subscription on, the stream of chain B from the
\* second.
RelaySubscribed(c) ==
    pc["relay"] \in (IF c = "a" THEN {"subscribe_b", "select", "process"}
                     ELSE {"select", "process"})

\* A chain finalizes a block, or its finality stream ends.
Finalize(c) ==
    /\ RelaySubscribed(c)
    /\ store.finality[c] = "none"
    /\ store' = [store EXCEPT !.finality[c] = "event"]
    /\ UNCHANGED <<pc, upd, cur, nxt, changed, result, pre>>

CloseFinality(c) ==
    /\ RelaySubscribed(c)
    /\ store.finality[c] = "none"
    /\ store' = [store EXCEPT !.finality[c] = "closed"]
    /\ UNCHANGED <<pc, upd, cur, nxt, changed, result, pre>>

\* The place of a program that is about to subscribe to chain c, and the
\* place after it (lib.rs:53-54, 79-94): chain A first, then chain B.
SubscribePc(c) == IF c = "a" THEN "subscribe" ELSE "subscribe_b"
AfterSubscribePc(c) == IF c = "a" THEN "subscribe_b" ELSE "select"

\* lib.rs:53-54: finality_notifications of chain A is awaited, then that of
\* chain B; an error of either returns before the loop.
RelaySubscribe(c, ok) ==
    /\ pc["relay"] = SubscribePc(c)
    /\ IF ok
       THEN /\ pc' = [pc EXCEPT !["relay"] = AfterSubscribePc(c)]
            /\ UNCHANGED result
       ELSE Finish("relay", "Error")
    /\ UNCHANGED <<store, upd, cur, nxt, changed, pre>>

\* lib.rs:57-67: select! takes the next item of a stream that has one, an
\* event or the end of the stream, and hands it to process_finality_event!.
RelaySelect(c) ==
    /\ pc["relay"] = "select"
    /\ store.finality[c] # "none"
    /\ store' = [store EXCEPT !.finality[c] = "none"]
    /\ pre' = [pre EXCEPT !["relay"].chain = c,
                          !["relay"].item = store.finality[c]]
    /\ pc' = [pc EXCEPT !["relay"] = "process"]
    /\ UNCHANGED <<upd, cur, nxt, changed, result>>

\* lib.rs:61, 65: process_finality_event! is expanded in the branch that was
\* taken. The body of the macro is not in these sources; lib.rs fixes only
\* the ways it can end: the loop is the tail of a function that returns a
\* Result and has no value to break with, so the body either falls through to
\* the next round of the loop or returns from relay, with Ok or with an error.
RelayProcess(outcome) ==
    /\ pc["relay"] = "process"
    /\ IF outcome = "continue"
       THEN /\ pc' = [pc EXCEPT !["relay"] = "select"]
            /\ UNCHANGED result
       ELSE Finish("relay", outcome)
    /\ UNCHANGED <<store, upd, cur, nxt, changed, pre>>

\* lib.rs:78-94: ibc_events of chain A is awaited, then that of chain B.
FishSubscribe(c) ==
    /\ pc["fish"] = SubscribePc(c)
    /\ pc' = [pc EXCEPT !["fish"] = AfterSubscribePc(c)]
    /\ UNCHANGED <<store, upd, cur, nxt, changed, result, pre>>

\* test_provider.rs:69-71: the stream is a new receiver of a broadcast
\* channel, which gets the events sent after the subscription only. An event
\* that chain c emits while fish has not subscribed to it is not received.
MissEvent(c) ==
    /\ pc["fish"] \in (IF c = "a" THEN {"subscribe"}
                       ELSE {"subscribe", "subscribe_b"})
    /\ store.updates[c] # <<>>
    /\ store' = [store EXCEPT !.updates[c] = Tail(@)]
    /\ UNCHANGED <<pc, upd, cur, nxt, changed, result, pre>>

\* test_provider.rs:69-71: the receiver of a subscribed stream lags when the
\* chain sends more events than the channel holds before fish receives them.
\* The n oldest events that wait are lost, the stream yields the error of the
\* lag once, which unwrap_or_default() turns into IbcEvent::default(), an
\* event that the filter of lib.rs:80-93 drops, and goes on with the events
\* the channel kept, of which there is one at least.
LagEvent(c, n) ==
    /\ pc["fish"] \in (IF c = "a"
                       THEN {"subscribe_b", "select", "sleep", "query", "check"}
                       ELSE {"select", "sleep", "query", "check"})
    /\ n \in 1 .. (Len(store.updates[c]) - 1)
    /\ store' = [store EXCEPT !.updates[c] =
                     <<"other">> \o SubSeq(@, n + 1, Len(@))]
    /\ UNCHANGED <<pc, upd, cur, nxt, changed, result, pre>>

\* The place of the first "update" of a stream, 0 when it has none.
FirstUpdate(s) ==
    IF \E i \in 1 .. Len(s) : s[i] = "update"
    THEN CHOOSE i \in 1 .. Len(s) :
            s[i] = "update" /\ \A j \in 1 .. (i - 1) : s[j] # "update"
    ELSE 0

\* The number of events of chain c that fish has taken.
TakenOf(c) ==
    Cardinality({i \in 1 .. Len(pre["fish"].taken) : pre["fish"].taken[i][1] = c})

\* lib.rs:105-108, 118-121: the chain of which the branch of an event of
\* chain c reads client_type() and expected_block_time(). Both branches are
\* written with chain_a.
SleepChain(c) == IF c = "a" THEN "a" ELSE "a"

\* The chain whose expected block time the branch waits, "none" for no wait.
WaitedChain(c, client_type) ==
    IF client_type[SleepChain(c)] = "07-tendermint" THEN SleepChain(c) ELSE "none"

\* lib.rs:97-107, 112-120: select! takes the next client update of a stream
\* that has one, or None of a stream that has ended, which breaks the loop
\* (lib.rs:128). For an update the branch starts the wait, or sends the query
\* of the client message at once when there is no wait.
FishSelect(c) ==
    /\ pc["fish"] = "select"
    /\ LET s == store.updates[c]
           i == FirstUpdate(s)
       IN IF i # 0
          THEN /\ store' = [store EXCEPT !.updates[c] = SubSeq(s, i + 1, Len(s))]
               /\ pre' = [pre EXCEPT !["fish"].chain = c,
                                     !["fish"].taken = Append(@, <<c, TakenOf(c) + 1>>),
                                     !["fish"].waited =
                                         WaitedChain(c, store.client_type)]
               /\ pc' = [pc EXCEPT !["fish"] =
                             IF WaitedChain(c, store.client_type) = "none"
                             THEN "query" ELSE "sleep"]
               /\ UNCHANGED result
          ELSE /\ store.ends[c]
               /\ store' = [store EXCEPT !.updates[c] = <<>>]
               /\ pre' = [pre EXCEPT !["fish"].ended = TRUE]
               /\ Finish("fish", "Ok")
    /\ UNCHANGED <<upd, cur, nxt, changed>>

\* lib.rs:107, 120: the expected block time has passed, and the client
\* message is queried (lib.rs:109, 122).
FishWake ==
    /\ pc["fish"] = "sleep"
    /\ pc' = [pc EXCEPT !["fish"] = "query"]
    /\ UNCHANGED <<store, upd, cur, nxt, changed, result, pre>>

\* lib.rs:109, 122: the answer of query_client_message; an error is returned.
FishQuery(ok) ==
    /\ pc["fish"] = "query"
    /\ IF ok
       THEN /\ pc' = [pc EXCEPT !["fish"] = "check"]
            /\ UNCHANGED <<pre, result>>
       ELSE /\ pre' = [pre EXCEPT !["fish"].failed = TRUE]
            /\ Finish("fish", "Error")
    /\ UNCHANGED <<store, upd, cur, nxt, changed>>

\* lib.rs:110, 123: the other chain checks the message for misbehaviour.
FishCheck(ok) ==
    /\ pc["fish"] = "check"
    /\ IF ok
       THEN /\ pre' = [pre EXCEPT !["fish"].handled =
                          Append(@, pre["fish"].taken[Len(pre["fish"].taken)])]
            /\ pc' = [pc EXCEPT !["fish"] = "select"]
            /\ UNCHANGED result
       ELSE /\ pre' = [pre EXCEPT !["fish"].failed = TRUE]
            /\ Finish("fish", "Error")
    /\ UNCHANGED <<store, upd, cur, nxt, changed>>

NextLoops ==
    \/ \E c \in Chains : Finalize(c)
    \/ \E c \in Chains : CloseFinality(c)
    \/ \E c \in Chains, ok \in BOOLEAN : RelaySubscribe(c, ok)
    \/ \E c \in Chains : RelaySelect(c)
    \/ \E outcome \in {"continue", "Ok", "Error"} : RelayProcess(outcome)
    \/ \E c \in Chains : FishSubscribe(c)
    \/ \E c \in Chains : MissEvent(c)
    \/ \E c \in Chains : \E n \in 1 .. Len(store.updates[c]) : LagEvent(c, n)
    \/ \E c \in Chains : FishSelect(c)
    \/ FishWake
    \/ \E ok \in BOOLEAN : FishQuery(ok)
    \/ \E ok \in BOOLEAN : FishCheck(ok)

SpecLoops == InitLoops /\ [][NextLoops]_vars

\* The stream of client updates of chain c has ended.
StreamEnded(c) == store.ends[c] /\ FirstUpdate(store.updates[c]) = 0

\* C30: fish returns Ok as soon as either update stream ends: when fish is at
\* its select! and the stream of a chain has ended, the step with which fish
\* leaves the select! is the return of Ok.
C30_FishOkAtStreamEnd ==
    [][(/\ pc["fish"] = "select"
        /\ \E c \in Chains : StreamEnded(c)
        /\ pc'["fish"] # "select")
          => (pc'["fish"] = "done" /\ result'["fish"] = "Ok")]_vars

\* C31: before the client message of an update of chain c is queried, fish
\* waits the expected block time of chain c when the client type of chain c
\* is 07-tendermint, and does not wait otherwise; for c = a and for c = b.
C31_WaitsForEventChain ==
    pc["fish"] \in {"query", "check"} =>
        pre["fish"].waited =
            (IF store.client_type[pre["fish"].chain] = "07-tendermint"
             THEN pre["fish"].chain ELSE "none")

\* ------------------- ics07-tendermint: Misbehaviour and RawMisbehaviour
\* In this part `upd` is the value a conversion is applied to, `pre` the
\* Misbehaviour it yields and `result` "Ok" or the error.

\* A ClientId is a client type with a counter; its string is the two joined
\* by "-" (to_string, misbehaviour.rs:54), written here as the parts.
MisClientIds ==
    {[client_type |-> t, counter |-> n] :
        t \in {"07-tendermint", "10-grandpa"}, n \in {0, 1}}

\* ClientId::default() (misbehaviour.rs:38)
DefaultClientId == [client_type |-> "07-tendermint", counter |-> 0]

ClientIdToString(id) == <<id.client_type, "-", id.counter>>

\* A tendermint Header by its height and trusted height.
MisHeaders ==
    {[height |-> h, trusted_height |-> t] : h \in {1, 2}, t \in {0, 1}}

\* Header into RawHeader (misbehaviour.rs:55-56) and RawHeader try_into Header
\* (misbehaviour.rs:42, 46): a raw header carries the two heights as pairs of
\* revision number and height; one that lacks a field does not convert.
HeaderToRaw(h) ==
    [complete |-> TRUE, height |-> <<0, h.height>>,
     trusted_height |-> <<0, h.trusted_height>>]

RawHeaderOk(raw) == raw.complete

HeaderTryFrom(raw) ==
    [height |-> raw.height[2], trusted_height |-> raw.trusted_height[2]]

RawHeaders ==
    {HeaderToRaw(h) : h \in MisHeaders}
        \cup {[complete |-> FALSE, height |-> <<0, 0>>, trusted_height |-> <<0, 0>>]}

\* Option<RawHeader>: <<>> is None, <<raw>> is Some(raw).
OptionalRawHeaders == {<<>>} \cup {<<raw>> : raw \in RawHeaders}

Misbehaviours ==
    {[client_id |-> id, header1 |-> h1, header2 |-> h2] :
        id \in MisClientIds, h1 \in MisHeaders, h2 \in MisHeaders}

RawMisbehaviours ==
    {[client_id |-> ClientIdToString(id), header_1 |-> o1, header_2 |-> o2] :
        id \in MisClientIds, o1 \in OptionalRawHeaders, o2 \in OptionalRawHeaders}

NoMisbehaviour ==
    [client_id |-> [client_type |-> "none", counter |-> 0],
     header1 |-> [height |-> 0, trusted_height |-> 0],
     header2 |-> [height |-> 0, trusted_height |-> 0]]

\* From<Misbehaviour> for RawMisbehaviour (misbehaviour.rs:51-59)
RawFrom(value) ==
    [client_id |-> ClientIdToString(value.client_id),
     header_1 |-> <<HeaderToRaw(value.header1)>>,
     header_2 |-> <<HeaderToRaw(value.header2)>>]

\* TryFrom<RawMisbehaviour> for Misbehaviour (misbehaviour.rs:33-49): the
\* fields are built in the order they are written, the first failure returns.
try_from(raw) ==
    IF raw.header_1 = <<>>
    THEN [result |-> "invalid_raw_misbehaviour", value |-> NoMisbehaviour]
    ELSE IF ~RawHeaderOk(raw.header_1[1])
    THEN [result |-> "invalid_header", value |-> NoMisbehaviour]
    ELSE IF raw.header_2 = <<>>
    THEN [result |-> "invalid_raw_misbehaviour", value |-> NoMisbehaviour]
    ELSE IF ~RawHeaderOk(raw.header_2[1])
    THEN [result |-> "invalid_header", value |-> NoMisbehaviour]
    ELSE [result |-> "Ok",
          value |-> [client_id |-> DefaultClientId,
                     header1 |-> HeaderTryFrom(raw.header_1[1]),
                     header2 |-> HeaderTryFrom(raw.header_2[1])]]

InitMisbehaviour ==
    /\ store = Uninitialised
    /\ pc = [p \in Callers |-> "idle"]
    /\ upd \in {[p \in Callers |-> [kind |-> "misbehaviour", m |-> m,
                                   raw |-> RawFrom(m)]] : m \in Misbehaviours}
           \cup {[p \in Callers |-> [kind |-> "raw", m |-> NoMisbehaviour,
                                     raw |-> raw]] : raw \in RawMisbehaviours}
    /\ cur = [p \in Callers |-> NoSet]
    /\ nxt = [p \in Callers |-> NoSet]
    /\ changed = [p \in Callers |-> FALSE]
    /\ result = [p \in Callers |-> "none"]
    /\ pre = [p \in Callers |-> NoMisbehaviour]

\* Misbehaviour::try_from(RawMisbehaviour::from(m))
RoundTrip(p) ==
    /\ pc[p] = "idle"
    /\ upd[p].kind = "misbehaviour"
    /\ LET r == try_from(RawFrom(upd[p].m))
       IN /\ pre' = [pre EXCEPT ![p] = r.value]
          /\ Finish(p, r.result)
    /\ UNCHANGED <<store, upd, cur, nxt, changed>>

\* Misbehaviour::try_from(raw)
TryFromRaw(p) ==
    /\ pc[p] = "idle"
    /\ upd[p].kind = "raw"
    /\ LET r == try_from(upd[p].raw)
       IN /\ pre' = [pre EXCEPT ![p] = r.value]
          /\ Finish(p, r.result)
    /\ UNCHANGED <<store, upd, cur, nxt, changed>>

NextMisbehaviour ==
    \E p \in Callers :
        \/ RoundTrip(p)
        \/ TryFromRaw(p)

SpecMisbehaviour == InitMisbehaviour /\ [][NextMisbehaviour]_vars

\* C32: the conversion of a Misbehaviour m to RawMisbehaviour and back
\* succeeds and yields m, with its client_id, header1 and header2; try_from of
\* a raw value without header_1 or without header_2 fails with
\* invalid_raw_misbehaviour.
C32_RoundTrip ==
    \A p \in Callers :
        pc[p] = "done" =>
            /\ upd[p].kind = "misbehaviour" =>
                  result[p] = "Ok" /\ pre[p] = upd[p].m
            /\ (upd[p].raw.header_1 = <<>> \/ upd[p].raw.header_2 = <<>>) =>
                  result[p] = "invalid_raw_misbehaviour"

====
